---- MODULE Spec2Model ----
(***************************************************************************)
(* Vyauma Runtime Engine (vre-core): the stack VM of vm/vm.rs with its     *)
(* operand stack, call frames, capability registry and state-change        *)
(* buffer, driven by a host through execute / resume /                     *)
(* apply_external_results / drain_state_changes / pop_top /                *)
(* grant_capability, and the strict bytecode validator of loader/loader.rs.*)
(*                                                                         *)
(* Offsets (ip, jump targets, constant and local indexes) are 0-based as   *)
(* in the source; TLA+ sequences are 1-based, so the byte at offset p of   *)
(* a stream s is s[p + 1].                                                 *)
(***************************************************************************)
EXTENDS Integers, Sequences, FiniteSets, TLC

VARIABLES
    instructions,   \* VirtualMachine.instructions: Vec<u8>
    constants,      \* VirtualMachine.constants: ConstantPool
    ip,             \* VirtualMachine.ip
    stack,          \* VirtualMachine.stack.values (top is the last element)
    call_stack,     \* VirtualMachine.call_stack: Vec<CallFrame>
    halted,         \* VirtualMachine.halted
    state_changes,  \* VirtualMachine.state_changes: Vec<StateChange>
    granted,        \* VirtualMachine.capabilities.granted: HashSet<CapabilityId>
    loadResult,     \* what strict validation returns for the instruction stream
    loadCaps,       \* LoadedBytecode.caps of an accepted stream, as a set
    loadTarget,     \* the offset carried by InvalidJumpTarget (-1 when there is none)
    loadSummaries,  \* the validator's summaries map when it returns (target :> delta)
    mode,           \* "idle": the host has control; "exec": inside execute()'s loop
    lastOp,         \* the public operation called last
    lastResult,     \* the VreResult of the operation called last ("Ok" or the error)
    lastDrained,    \* the Vec returned by the last drain_state_changes()
    execLog,        \* history: the events of the instructions executed, in order
    drainLog,       \* history: all batches returned by drain_state_changes, concatenated
    suspended,      \* history: an ExternalCall suspended the VM and resume() has not run
    handoff,        \* history: how far the host is in answering the pending request
    resumedFrom,    \* history: what had halted the VM when resume() was called last
    handlerCalls,   \* history: the handler calls made by the last consume_external_call
    bytes,          \* the buffer handed to load / load_with_opt_in
    layout,         \* history: the file layout the buffer was cut from
    entry_point,    \* LoadedBytecode.entry_point
    allow_opt_in,   \* the flag handed to load_with_opt_in
    lenient,        \* the bool load_with_opt_in returns with the bundle
    an,             \* the locals of analyze_instructions_cfg while it runs step by step
    front,          \* the locals of the vre-vol front end (main.rs)
    handlerLog,     \* history: the requests handed to the host's handler, in order
    callLog         \* history: for each frame pushed by a Call, its target and the
                    \* operand stack depth at the Call

vars == <<instructions, constants, ip, stack, call_stack, halted, state_changes,
          granted, loadResult, loadCaps, loadTarget, loadSummaries, mode, lastOp, lastResult,
          lastDrained, execLog, drainLog, suspended, handoff, resumedFrom,
          handlerCalls, bytes, layout, entry_point, allow_opt_in, lenient,
          an, front, handlerLog, callLog>>

\* the loader's input and the parts of its result the VM is not built from
fileVars == <<bytes, layout, entry_point, allow_opt_in, lenient>>

\* the locals of the validator run step by step and of the front end
sideVars == <<an, front>>

\* analyze_instructions_cfg is not running; main() has not started
NotAnalyzing == [pc |-> "none"]

NotStarted == [pc |-> "none"]

(***************************************************************************)
(* Bounds of the model.                                                    *)
(***************************************************************************)
\* VreConfig.max_stack_size of the modelled VM
MaxStackSize == 3
\* VreConfig.max_locals of the modelled VM
MaxLocals == 1
\* VreConfig.max_call_depth of the modelled VM
MaxCallDepth == 2
\* the model stops following a run whose call stack holds this many frames
MaxFrames == 4

(***************************************************************************)
(* Values (vm/value.rs).  A Number is a rational n/d in lowest terms with  *)
(* d > 0; the other variants carry their payload in n.                     *)
(***************************************************************************)
Null == [t |-> "Null", n |-> 0, d |-> 1]
Bool(b) == [t |-> "Bool", n |-> IF b THEN 1 ELSE 0, d |-> 1]
Ref(id) == [t |-> "Ref", n |-> id, d |-> 1]

Abs(x) == IF x < 0 THEN -x ELSE x

RECURSIVE Gcd(_, _)
Gcd(a, b) == IF b = 0 THEN a ELSE Gcd(b, a % b)

Number(num, den) ==
    LET g == Gcd(Abs(num), Abs(den))
        s == IF den < 0 THEN -1 ELSE 1
    IN  [t |-> "Number", n |-> (s * num) \div g, d |-> (s * den) \div g]

(***************************************************************************)
(* Opcodes (bytecode/opcode.rs).  ExternalCall is used by vm.rs and        *)
(* loader.rs as OpCode::ExternalCall; its byte is the reserved value the   *)
(* model fixes in ExternalCallByte.                                        *)
(***************************************************************************)
ExternalCallByte == 80

FromU8(byte) ==
    CASE byte = 1   -> "Push"
      [] byte = 2   -> "Pop"
      [] byte = 3   -> "Dup"
      [] byte = 16  -> "LoadLocal"
      [] byte = 17  -> "StoreLocal"
      [] byte = 32  -> "Add"
      [] byte = 33  -> "Sub"
      [] byte = 34  -> "Mul"
      [] byte = 35  -> "Div"
      [] byte = 36  -> "Mod"
      [] byte = 37  -> "Neg"
      [] byte = 48  -> "Equal"
      [] byte = 49  -> "NotEqual"
      [] byte = 50  -> "Less"
      [] byte = 51  -> "LessEqual"
      [] byte = 52  -> "Greater"
      [] byte = 53  -> "GreaterEqual"
      [] byte = 64  -> "Jump"
      [] byte = 65  -> "JumpIf"
      [] byte = 66  -> "Call"
      [] byte = 67  -> "Return"
      [] byte = 240 -> "Nop"
      [] byte = 255 -> "Halt"
      [] byte = ExternalCallByte -> "ExternalCall"
      [] OTHER -> "None"

\* the byte at offset p of a stream
ByteAt(s, p) == s[p + 1]

\* u32::from_be_bytes of the four bytes at offsets p .. p+3
U32At(s, p) ==
    ((ByteAt(s, p) * 256 + ByteAt(s, p + 1)) * 256 + ByteAt(s, p + 2)) * 256
        + ByteAt(s, p + 3)

(***************************************************************************)
(* Stack (vm/stack.rs).  Each operation returns the VreResult in err and   *)
(* the stack it leaves.                                                    *)
(***************************************************************************)
\* StackPush with the capacity test off by one
StackPushOffByOne(s, v) ==
    IF Len(s) > MaxStackSize
    THEN [err |-> "StackOverflow", stack |-> s]
    ELSE [err |-> "Ok", stack |-> Append(s, v)]

\* StackPush overwriting the top of a full stack
StackPushReplacingTop(s, v) ==
    IF Len(s) >= MaxStackSize
    THEN [err |-> "StackOverflow", stack |-> [s EXCEPT ![Len(s)] = v]]
    ELSE [err |-> "Ok", stack |-> Append(s, v)]

StackPush(s, v) ==
    IF Len(s) >= MaxStackSize
    THEN [err |-> "StackOverflow", stack |-> s]
    ELSE [err |-> "Ok", stack |-> Append(s, v)]

StackPop(s) ==
    IF Len(s) = 0
    THEN [err |-> "StackUnderflow", stack |-> s, value |-> Null]
    ELSE [err |-> "Ok", stack |-> SubSeq(s, 1, Len(s) - 1), value |-> s[Len(s)]]

StackDup(s) ==
    IF Len(s) = 0
    THEN [err |-> "StackUnderflow", stack |-> s]
    ELSE StackPush(s, s[Len(s)])

(***************************************************************************)
(* Locals and ConstantPool (vm/memory.rs), CallFrame (vm/vm.rs).           *)
(***************************************************************************)
LocalsNew == [i \in 1..MaxLocals |-> Null]

LocalsLoad(locals, index) ==
    IF index >= Len(locals)
    THEN [err |-> "InvalidLocalAccess", value |-> Null]
    ELSE [err |-> "Ok", value |-> locals[index + 1]]

\* LocalsStore checking the index but keeping the old value
LocalsStoreDroppingValue(locals, index, v) ==
    IF index >= Len(locals)
    THEN [err |-> "InvalidLocalAccess", locals |-> locals]
    ELSE [err |-> "Ok", locals |-> locals]

LocalsStore(locals, index, v) ==
    IF index >= Len(locals)
    THEN [err |-> "InvalidLocalAccess", locals |-> locals]
    ELSE [err |-> "Ok", locals |-> [locals EXCEPT ![index + 1] = v]]

ConstantGet(pool, index) ==
    IF index >= Len(pool)
    THEN [err |-> "InvalidConstantAccess", value |-> Null]
    ELSE [err |-> "Ok", value |-> pool[index + 1]]

\* CallFrame returning to the Call itself
CallFrameReturningToCall(ret, locals) == [return_ip |-> ret - 5, locals |-> locals]

CallFrame(ret, locals) == [return_ip |-> ret, locals |-> locals]

(***************************************************************************)
(* CapabilityRegistry (capability/registry.rs).                            *)
(***************************************************************************)
RegistryGrant(set, id) == set \cup {id}

\* RegistryCheck failing open
RegistryCheckFailOpen(set, raw_id) == "Ok"

RegistryCheck(set, raw_id) == IF raw_id \in set THEN "Ok" ELSE "CapabilityDenied"

(***************************************************************************)
(* StateChange events and the buffer (vm/vm.rs).                           *)
(***************************************************************************)
LocalStore(index, value) == [kind |-> "LocalStore", index |-> index, value |-> value]

ExternalCallRequest(cap_id, args) ==
    [kind |-> "ExternalCallRequest", cap_id |-> cap_id, args |-> args]

\* RecordStateChange inserting at the front of the buffer
RecordStateChangeInFront(buf, event) == <<event>> \o buf

\* self.state_changes.push(event)
RecordStateChange(buf, event) == Append(buf, event)

\* TakeStateChanges cloning the buffer instead of taking it
TakeStateChangesKeeping(buf) == [returned |-> buf, left |-> buf]

\* std::mem::take(&mut self.state_changes): what is returned, what is left
TakeStateChanges(buf) == [returned |-> buf, left |-> <<>>]

(***************************************************************************)
(* The strict validator, BytecodeLoader::analyze_instructions_cfg          *)
(* (loader/loader.rs).  Instruction metadata is kept in a sequence metas;  *)
(* the source's 0-based index i of an instruction is i + 1 here.  A        *)
(* target of -1 stands for None.                                           *)
(***************************************************************************)
Min(a, b) == IF a < b THEN a ELSE b

InstrMeta(offset, opcode, imm_len, target) ==
    [offset |-> offset, opcode |-> opcode, imm_len |-> imm_len, target |-> target]

\* first pass: decode linearly from idx, appending to metas
RECURSIVE DecodeFrom(_, _, _)
DecodeFrom(ins, idx, metas) ==
    IF idx >= Len(ins) THEN [err |-> "Ok", metas |-> metas]
    ELSE
      LET op == FromU8(ByteAt(ins, idx))
          nx == idx + 1
          bad == [err |-> "MalformedBytecode", metas |-> <<>>]
      IN  CASE op = "None" -> bad
            [] op \in {"Push", "LoadLocal", "StoreLocal"} ->
                 IF nx < Len(ins)
                 THEN DecodeFrom(ins, nx + 1, Append(metas, InstrMeta(idx, op, 1, -1)))
                 ELSE bad
            [] op = "ExternalCall" ->
                 IF nx + 1 < Len(ins)
                 THEN DecodeFrom(ins, nx + 2, Append(metas, InstrMeta(idx, op, 2, -1)))
                 ELSE bad
            [] op \in {"Jump", "JumpIf", "Call"} ->
                 IF nx + 4 <= Len(ins)
                 THEN DecodeFrom(ins, nx + 4,
                                 Append(metas, InstrMeta(idx, op, 4, U32At(ins, nx))))
                 ELSE bad
            [] OTHER -> DecodeFrom(ins, nx, Append(metas, InstrMeta(idx, op, 0, -1)))

\* offset_to_idx: the index of the instruction starting at offset off, 0 if none
OffsetToIdx(metas, off) ==
    IF \E i \in 1..Len(metas) : metas[i].offset = off
    THEN CHOOSE i \in 1..Len(metas) : metas[i].offset = off
    ELSE 0

\* the instructions whose target is checked while the successor map is built
BadTargets(metas) ==
    {i \in 1..Len(metas) : /\ metas[i].opcode \in {"Jump", "Call", "JumpIf"}
                           /\ OffsetToIdx(metas, metas[i].target) = 0}

\* succs[i]: the successors of instruction i, in the order they are pushed
Succs(metas, i) ==
    LET m == metas[i]
        ft == IF i < Len(metas) THEN <<i + 1>> ELSE <<>>
        tg == <<OffsetToIdx(metas, m.target)>>
    IN  CASE m.opcode \in {"Halt", "Nop"} -> <<>>
          [] m.opcode = "Jump" -> tg
          [] m.opcode = "Call" -> tg \o ft
          [] m.opcode = "JumpIf" -> tg \o ft
          [] m.opcode = "Return" -> <<>>
          [] OTHER -> ft

\* BuildSuccs reporting a bad target as MalformedBytecode
BuildSuccsReportingMalformed(metas) ==
    LET bad == BadTargets(metas)
    IN  IF bad # {}
        THEN [err |-> "MalformedBytecode", target |-> -1, succs |-> <<>>]
        ELSE [err |-> "Ok", target |-> -1,
              succs |-> [i \in 1..Len(metas) |-> Succs(metas, i)]]

\* the successor map, or InvalidJumpTarget(t) for the first bad target in stream order
BuildSuccs(metas) ==
    LET bad == BadTargets(metas)
        first == CHOOSE i \in bad : \A j \in bad : i <= j
    IN  IF bad # {}
        THEN [err |-> "InvalidJumpTarget", target |-> metas[first].target, succs |-> <<>>]
        ELSE [err |-> "Ok", target |-> -1,
              succs |-> [i \in 1..Len(metas) |-> Succs(metas, i)]]

\* the keys of call_targets: targets of the Calls that have a next instruction
CallTargets(metas) ==
    {metas[i].target : i \in {j \in 1..Len(metas) - 1 : metas[j].opcode = "Call"}}

BinaryOps == {"Add", "Sub", "Mul", "Div", "Mod", "Equal", "NotEqual", "Less",
              "LessEqual", "Greater", "GreaterEqual"}

\* LocalExternalCall leaving the height and the attempt as they are
LocalExternalCallAsNoChange(h) == [complex |-> FALSE, nh |-> h]

\* an ExternalCall met in a callee-local pass makes the attempt complex
LocalExternalCall(h) == [complex |-> TRUE, nh |-> h]

\* the height after instruction m entered at height h in a callee-local pass;
\* a Call to a target in placeholders that has no summary leaves the height
LocalEffect(m, h, summaries, placeholders) ==
    LET cx == [complex |-> TRUE, nh |-> h]
        ok(x) == [complex |-> FALSE, nh |-> x]
    IN  CASE m.opcode = "Push" -> ok(h + 1)
          [] m.opcode = "Pop" -> IF h <= 0 THEN cx ELSE ok(h - 1)
          [] m.opcode = "Dup" -> IF h <= 0 THEN cx ELSE ok(h + 1)
          [] m.opcode = "LoadLocal" -> ok(h + 1)
          [] m.opcode = "StoreLocal" -> IF h <= 0 THEN cx ELSE ok(h - 1)
          [] m.opcode \in BinaryOps -> IF h < 2 THEN cx ELSE ok(h - 1)
          [] m.opcode = "ExternalCall" -> LocalExternalCall(h)
          [] m.opcode = "Call" ->
               IF m.target \in DOMAIN summaries THEN ok(h + summaries[m.target])
               ELSE IF m.target \in placeholders THEN ok(h)
               ELSE cx
          [] OTHER -> ok(h)

\* Propagate pushing a successor met before whether or not its height went down
RECURSIVE PropagateRequeueingSeen(_, _, _)
PropagateRequeueingSeen(st, ss, nh) ==
    IF ss = <<>> THEN st
    ELSE
      LET x == Head(ss)
          merged == Min(st.heights[x], nh)
          st1 == IF x \notin st.seen
                 THEN [heights |-> [st.heights EXCEPT ![x] = nh],
                       seen |-> st.seen \cup {x}, q |-> Append(st.q, x)]
                 ELSE [heights |-> [st.heights EXCEPT ![x] = merged],
                       seen |-> st.seen, q |-> Append(st.q, x)]
      IN  PropagateRequeueingSeen(st1, Tail(ss), nh)

\* propagate height nh to the successors ss: st = [heights, seen, q]
RECURSIVE Propagate(_, _, _)
Propagate(st, ss, nh) ==
    IF ss = <<>> THEN st
    ELSE
      LET x == Head(ss)
          merged == Min(st.heights[x], nh)
          st1 == IF x \notin st.seen
                 THEN [heights |-> [st.heights EXCEPT ![x] = nh],
                       seen |-> st.seen \cup {x}, q |-> Append(st.q, x)]
                 ELSE IF merged # st.heights[x]
                 THEN [heights |-> [st.heights EXCEPT ![x] = merged],
                       seen |-> st.seen, q |-> Append(st.q, x)]
                 ELSE st
      IN  Propagate(st1, Tail(ss), nh)

\* the worklist loop of a callee-local pass
RECURSIVE LocalLoop(_, _, _, _, _, _)
LocalLoop(metas, succs, summaries, placeholders, st, rets) ==
    IF st.q = <<>> THEN [complex |-> FALSE, return_heights |-> rets]
    ELSE
      LET j == Head(st.q)
          e == LocalEffect(metas[j], st.heights[j], summaries, placeholders)
          rets1 == IF metas[j].opcode = "Return" THEN Append(rets, e.nh) ELSE rets
          popped == [st EXCEPT !.q = Tail(st.q)]
      IN  IF e.complex THEN [complex |-> TRUE, return_heights |-> rets]
          ELSE LocalLoop(metas, succs, summaries, placeholders,
                         Propagate(popped, succs[j], e.nh), rets1)

\* local dataflow from callee entry t_idx at height 0
LocalPass(metas, succs, t_idx, summaries, placeholders) ==
    LocalLoop(metas, succs, summaries, placeholders,
              [heights |-> [i \in 1..Len(metas) |-> 0],
               seen |-> {t_idx}, q |-> <<t_idx>>],
              <<>>)

\* a pass yields a summary when it is not complex, reached a Return and all
\* the return heights are equal
HasSummary(r) ==
    /\ ~r.complex
    /\ r.return_heights # <<>>
    /\ \A k \in 1..Len(r.return_heights) : r.return_heights[k] = r.return_heights[1]

\* the pending targets in the order the HashSet iterates them
Snapshot(pending, order) == SelectSeq(order, LAMBDA t : t \in pending)

\* one for loop over a snapshot cur of pending, from position k:
\* z = [summaries, pending, progress]
RECURSIVE SummarizeRound(_, _, _, _, _, _)
SummarizeRound(metas, succs, cur, k, placeholders, z) ==
    IF k > Len(cur) THEN z
    ELSE
      LET t == cur[k]
          r == LocalPass(metas, succs, OffsetToIdx(metas, t), z.summaries, placeholders)
          z1 == IF t \in DOMAIN z.summaries
                THEN [z EXCEPT !.pending = z.pending \ {t}]
                ELSE IF HasSummary(r)
                THEN [summaries |-> z.summaries @@ (t :> r.return_heights[1]),
                      pending |-> z.pending \ {t}, progress |-> TRUE]
                ELSE z
      IN  SummarizeRound(metas, succs, cur, k + 1, placeholders, z1)

\* FallbackLoop treating no pending target as a placeholder
RECURSIVE FallbackLoopWithoutPlaceholders(_, _, _, _)
FallbackLoopWithoutPlaceholders(metas, succs, order, z) ==
    LET cur == Snapshot(z.pending, order)
        z1 == SummarizeRound(metas, succs, cur, 1, {},
                             [z EXCEPT !.progress = FALSE])
    IN  IF z1.progress
        THEN FallbackLoopWithoutPlaceholders(metas, succs, order, z1)
        ELSE z1

\* the inner while progress2 loop: calls between pending targets are no-ops
RECURSIVE FallbackLoop(_, _, _, _)
FallbackLoop(metas, succs, order, z) ==
    LET cur == Snapshot(z.pending, order)
        z1 == SummarizeRound(metas, succs, cur, 1, {cur[k] : k \in 1..Len(cur)},
                             [z EXCEPT !.progress = FALSE])
    IN  IF z1.progress THEN FallbackLoop(metas, succs, order, z1) ELSE z1

\* the outer while progress loop: each round runs the fallback loop, then the
\* primary pass over the snapshot taken at the start of the round
RECURSIVE SummarizeLoop(_, _, _, _)
SummarizeLoop(metas, succs, order, z) ==
    LET cur == Snapshot(z.pending, order)
        zf == IF z.pending # {} THEN FallbackLoop(metas, succs, order, z) ELSE z
        zp == SummarizeRound(metas, succs, cur, 1, {}, [zf EXCEPT !.progress = FALSE])
    IN  IF zp.progress THEN SummarizeLoop(metas, succs, order, zp) ELSE zp

Summarize(metas, succs, order) ==
    SummarizeLoop(metas, succs, order,
                  [summaries |-> <<>>, pending |-> CallTargets(metas), progress |-> TRUE])

\* CapIdAt reading the argc byte
CapIdAtArgc(ins, imm_off) == ByteAt(ins, imm_off + 1)

\* the cap_id immediate of the ExternalCall whose immediates start at imm_off
CapIdAt(ins, imm_off) == ByteAt(ins, imm_off)

\* GlobalCall passing over a Call whose target has no summary
GlobalCallSkippingUnsummarized(m, h, summaries) ==
    IF m.target \in DOMAIN summaries
    THEN [err |-> "Ok", nh |-> h + summaries[m.target], caps |-> {}]
    ELSE [err |-> "Ok", nh |-> h, caps |-> {}]

\* a Call in the global dataflow: apply the summary of its target, reject
\* when it has none
GlobalCall(m, h, summaries) ==
    IF m.target \in DOMAIN summaries
    THEN [err |-> "Ok", nh |-> h + summaries[m.target], caps |-> {}]
    ELSE [err |-> "MalformedBytecode", nh |-> h, caps |-> {}]

\* the effect of instruction m at height h in the global dataflow
GlobalEffect(ins, m, h, summaries) ==
    LET bad == [err |-> "MalformedBytecode", nh |-> h, caps |-> {}]
        ok(x) == [err |-> "Ok", nh |-> x, caps |-> {}]
        imm_off == m.offset + 1
    IN  CASE m.opcode = "Push" -> ok(h + 1)
          [] m.opcode = "Pop" -> IF h <= 0 THEN bad ELSE ok(h - 1)
          [] m.opcode = "Dup" -> IF h <= 0 THEN bad ELSE ok(h + 1)
          [] m.opcode = "LoadLocal" -> ok(h + 1)
          [] m.opcode = "StoreLocal" -> IF h <= 0 THEN bad ELSE ok(h - 1)
          [] m.opcode \in BinaryOps -> IF h < 2 THEN bad ELSE ok(h - 1)
          [] m.opcode = "ExternalCall" ->
               IF imm_off + 1 >= Len(ins) THEN bad
               ELSE IF h < ByteAt(ins, imm_off + 1) THEN bad
               ELSE [err |-> "Ok", nh |-> h - ByteAt(ins, imm_off + 1),
                     caps |-> {CapIdAt(ins, imm_off)}]
          [] m.opcode = "Call" -> GlobalCall(m, h, summaries)
          [] OTHER -> ok(h)

\* the global worklist loop from instruction 0 at height 0
RECURSIVE GlobalLoop(_, _, _, _, _, _)
GlobalLoop(ins, metas, succs, summaries, st, caps) ==
    IF st.q = <<>> THEN [err |-> "Ok", caps |-> caps]
    ELSE
      LET i == Head(st.q)
          e == GlobalEffect(ins, metas[i], st.heights[i], summaries)
          popped == [st EXCEPT !.q = Tail(st.q)]
      IN  IF e.err # "Ok" THEN [err |-> e.err, caps |-> {}]
          ELSE GlobalLoop(ins, metas, succs, summaries,
                          Propagate(popped, succs[i], e.nh), caps \cup e.caps)

\* what analyze_instructions_cfg returns: the result, the offset of an
\* InvalidJumpTarget, the caps collected and the summaries
AnalyzeFailed(e, t) == [err |-> e, target |-> t, caps |-> {}, summaries |-> <<>>]

AnalyzeDone(e, c, summaries) ==
    [err |-> e, target |-> -1, caps |-> c, summaries |-> summaries]

\* the result of the global pass g over a stream summarized as sm
AnalyzeGlobal(sm, g) ==
    IF g.err # "Ok" THEN AnalyzeDone(g.err, {}, sm.summaries)
    ELSE AnalyzeDone("Ok", g.caps, sm.summaries)

\* callee summaries sm, then the global pass
AnalyzeSummarized(ins, metas, succs, sm) ==
    IF metas = <<>> THEN AnalyzeDone("Ok", {}, sm.summaries)
    ELSE AnalyzeGlobal(sm, GlobalLoop(ins, metas, succs, sm.summaries,
                                      [heights |-> [i \in 1..Len(metas) |-> 0],
                                       seen |-> {1}, q |-> <<1>>], {}))

\* the successor map sc, then summaries
AnalyzeCfg(ins, order, metas, sc) ==
    IF sc.err # "Ok" THEN AnalyzeFailed(sc.err, sc.target)
    ELSE AnalyzeSummarized(ins, metas, sc.succs, Summarize(metas, sc.succs, order))

\* the decoded stream dec, then the successor map
AnalyzeDecoded(ins, order, dec) ==
    IF dec.err # "Ok" THEN AnalyzeFailed(dec.err, -1)
    ELSE AnalyzeCfg(ins, order, dec.metas, BuildSuccs(dec.metas))

\* analyze_instructions_cfg, with the pending set iterated in the given order
AnalyzeInstructionsCfg(ins, order) ==
    AnalyzeDecoded(ins, order, DecodeFrom(ins, 0, <<>>))

\* the orders in which a HashSet holding the targets may iterate them
RECURSIVE Orders(_)
Orders(S) ==
    IF S = {} THEN {<<>>}
    ELSE UNION {{<<x>> \o o : o \in Orders(S \ {x})} : x \in S}

\* the call targets of a stream (none when it does not decode)
StreamCallTargets(ins) ==
    LET dec == DecodeFrom(ins, 0, <<>>) IN
    IF dec.err = "Ok" THEN CallTargets(dec.metas) ELSE {}

\* what validation of a stream may return: one outcome per iteration order of
\* the pending set
LoadOutcomes(ins) ==
    {AnalyzeInstructionsCfg(ins, order) : order \in Orders(StreamCallTargets(ins))}

(***************************************************************************)
(* The file format (loader.rs): header, constants, instruction bytes.      *)
(* Each reader returns the VreResult in err, the value read and the cursor *)
(* it leaves.                                                              *)
(***************************************************************************)
\* BYTECODE_MAGIC, 0x5659_4D41
BytecodeMagic == 1448693057

VersionMajor == 1

MinFileSize == 16

LoaderReadU8(b, cursor) ==
    IF cursor >= Len(b)
    THEN [err |-> "BytecodeTooShort", v |-> 0, cursor |-> cursor]
    ELSE [err |-> "Ok", v |-> ByteAt(b, cursor), cursor |-> cursor + 1]

LoaderReadU32(b, cursor) ==
    IF cursor + 4 > Len(b)
    THEN [err |-> "BytecodeTooShort", v |-> 0, cursor |-> cursor]
    ELSE [err |-> "Ok", v |-> U32At(b, cursor), cursor |-> cursor + 4]

\* f64::from_be_bytes for the encodings whose low 32 mantissa bits are zero
\* and whose magnitude is below 2^10: sign, 11 exponent bits, 20 mantissa bits
F64FromBeBytes(b, p) ==
    LET sign == IF ByteAt(b, p) >= 128 THEN -1 ELSE 1
        e == (ByteAt(b, p) % 128) * 16 + (ByteAt(b, p + 1) \div 16)
        frac == ((ByteAt(b, p + 1) % 16) * 256 + ByteAt(b, p + 2)) * 256
                    + ByteAt(b, p + 3)
        sig == 1048576 + frac
        k == e - 1043
    IN  IF e = 0 /\ frac = 0 THEN Number(0, 1)
        ELSE IF k >= 0 THEN Number(sign * sig * 2^k, 1)
        ELSE Number(sign * sig, 2^(0 - k))

LoaderReadF64(b, cursor) ==
    IF cursor + 8 > Len(b)
    THEN [err |-> "BytecodeTooShort", v |-> Null, cursor |-> cursor]
    ELSE [err |-> "Ok", v |-> F64FromBeBytes(b, cursor), cursor |-> cursor + 8]

\* ReadConstant taking an unknown tag for Null
ReadConstantAcceptingAnyTag(b, cursor) ==
    LET tag == LoaderReadU8(b, cursor)
        flag == LoaderReadU8(b, tag.cursor)
        n == LoaderReadF64(b, tag.cursor)
        id == LoaderReadU32(b, tag.cursor)
    IN  IF tag.err # "Ok" THEN tag
        ELSE CASE tag.v = 1 ->
                    IF flag.err # "Ok" THEN flag ELSE [flag EXCEPT !.v = Bool(flag.v # 0)]
               [] tag.v = 2 -> n
               [] tag.v = 255 ->
                    IF id.err # "Ok" THEN id ELSE [id EXCEPT !.v = Ref(id.v)]
               [] OTHER -> [tag EXCEPT !.v = Null]

ReadConstant(b, cursor) ==
    LET tag == LoaderReadU8(b, cursor)
        flag == LoaderReadU8(b, tag.cursor)
        n == LoaderReadF64(b, tag.cursor)
        id == LoaderReadU32(b, tag.cursor)
    IN  IF tag.err # "Ok" THEN tag
        ELSE CASE tag.v = 0 -> [tag EXCEPT !.v = Null]
               [] tag.v = 1 ->
                    IF flag.err # "Ok" THEN flag ELSE [flag EXCEPT !.v = Bool(flag.v # 0)]
               [] tag.v = 2 -> n
               [] tag.v = 255 ->
                    IF id.err # "Ok" THEN id ELSE [id EXCEPT !.v = Ref(id.v)]
               [] OTHER -> [err |-> "MalformedBytecode", v |-> Null, cursor |-> tag.cursor]

\* for _ in 0..constant_count { constants.push(read_constant(..)?) }
RECURSIVE ReadConstants(_, _, _, _)
ReadConstants(b, cursor, count, acc) ==
    IF count = 0 THEN [err |-> "Ok", v |-> acc, cursor |-> cursor]
    ELSE LET c == ReadConstant(b, cursor) IN
         IF c.err # "Ok" THEN [err |-> c.err, v |-> acc, cursor |-> c.cursor]
         ELSE ReadConstants(b, c.cursor, count - 1, Append(acc, c.v))

\* what load and load_with_opt_in return: the VreResult in err, the fields of
\* the bundle, the bool of load_with_opt_in and, for the model's history, the
\* validator's InvalidJumpTarget offset and summaries
NoBundle(e) ==
    [err |-> e, constants |-> <<>>, instructions |-> <<>>, entry_point |-> 0,
     caps |-> {}, lenient |-> FALSE, target |-> -1, summaries |-> <<>>]

\* header, constants and instruction bytes, as load reads them after the
\* minimum size test and as the lenient path reads them again
ReadBody(b) ==
    LET magic == LoaderReadU32(b, 0)
        major == LoaderReadU8(b, 4)
        minor == LoaderReadU8(b, 5)
        patch == LoaderReadU8(b, 6)
        reserved == LoaderReadU8(b, 7)
        entry == LoaderReadU32(b, 8)
        count == LoaderReadU32(b, 12)
        consts == ReadConstants(b, 16, count.v, <<>>)
        ilen == LoaderReadU32(b, consts.cursor)
    IN  IF magic.err # "Ok" THEN NoBundle(magic.err)
        ELSE IF magic.v # BytecodeMagic THEN NoBundle("InvalidMagicNumber")
        ELSE IF major.err # "Ok" THEN NoBundle(major.err)
        ELSE IF minor.err # "Ok" THEN NoBundle(minor.err)
        ELSE IF patch.err # "Ok" THEN NoBundle(patch.err)
        ELSE IF major.v # VersionMajor THEN NoBundle("InvalidBytecodeVersion")
        ELSE IF reserved.err # "Ok" THEN NoBundle(reserved.err)
        ELSE IF entry.err # "Ok" THEN NoBundle(entry.err)
        ELSE IF count.err # "Ok" THEN NoBundle(count.err)
        ELSE IF consts.err # "Ok" THEN NoBundle(consts.err)
        ELSE IF ilen.err # "Ok" THEN NoBundle(ilen.err)
        ELSE IF ilen.cursor + ilen.v > Len(b) THEN NoBundle("BytecodeTooShort")
        ELSE [NoBundle("Ok") EXCEPT
                !.constants = consts.v,
                !.instructions = SubSeq(b, ilen.cursor + 1, ilen.cursor + ilen.v),
                !.entry_point = entry.v]

\* what load returns for a buffer b whose header, constants and instruction
\* bytes read as body and whose instruction bytes validate as a
StrictResult(b, body, a) ==
    IF Len(b) < MinFileSize THEN NoBundle("BytecodeTooShort")
    ELSE IF body.err # "Ok" THEN body
    ELSE IF a.err # "Ok"
    THEN [NoBundle(a.err) EXCEPT !.target = a.target, !.summaries = a.summaries]
    ELSE [body EXCEPT !.caps = a.caps, !.summaries = a.summaries]

\* BytecodeLoader::load, with the pending set iterated in the given order
LoadBytes(b, order) ==
    StrictResult(b, ReadBody(b),
                 AnalyzeInstructionsCfg(ReadBody(b).instructions, order))

\* weak_scan_for_caps from idx on
RECURSIVE WeakScanForCaps(_, _, _)
WeakScanForCaps(ins, idx, caps) ==
    IF idx >= Len(ins) THEN [err |-> "Ok", caps |-> caps]
    ELSE
      LET op == FromU8(ByteAt(ins, idx))
          nx == idx + 1
          bad == [err |-> "MalformedBytecode", caps |-> {}]
      IN  CASE op = "None" -> bad
            [] op \in {"Push", "LoadLocal", "StoreLocal"} ->
                 IF nx < Len(ins) THEN WeakScanForCaps(ins, nx + 1, caps) ELSE bad
            [] op = "ExternalCall" ->
                 IF nx + 1 < Len(ins)
                 THEN WeakScanForCaps(ins, nx + 2, caps \cup {ByteAt(ins, nx)})
                 ELSE bad
            [] op \in {"Jump", "JumpIf", "Call"} ->
                 IF nx + 4 <= Len(ins) THEN WeakScanForCaps(ins, nx + 4, caps) ELSE bad
            [] OTHER -> WeakScanForCaps(ins, nx, caps)

\* LenientParse returning the body without the weak scan of its instructions
LenientParseWithoutScan(b) ==
    LET body == ReadBody(b)
    IN  IF body.err # "Ok" THEN body ELSE [body EXCEPT !.lenient = TRUE]

\* the lenient parse of load_with_opt_in
LenientParse(b) ==
    LET body == ReadBody(b)
        scan == WeakScanForCaps(body.instructions, 0, {})
    IN  IF body.err # "Ok" THEN body
        ELSE IF scan.err # "Ok" THEN NoBundle(scan.err)
        ELSE [body EXCEPT !.caps = scan.caps, !.lenient = TRUE]

\* the match guard of load_with_opt_in: Err(_) if allow_opt_in, ignoring the flag
LenientArmTakenIgnoringFlag(strict_err, allow) == strict_err # "Ok"

\* the match guard of load_with_opt_in: Err(_) if allow_opt_in
LenientArmTaken(strict_err, allow) == strict_err # "Ok" /\ allow

\* the match of load_with_opt_in on what load returned
OptInResult(b, allow, strict) ==
    IF strict.err = "Ok" THEN strict
    ELSE IF LenientArmTaken(strict.err, allow) THEN LenientParse(b)
    ELSE strict

\* BytecodeLoader::load_with_opt_in
LoadWithOptInBytes(b, allow, order) == OptInResult(b, allow, LoadBytes(b, order))

\* the orders in which the pending set of the buffer's stream may be iterated
BufferOrders(b) == Orders(StreamCallTargets(ReadBody(b).instructions))

(***************************************************************************)
(* read_u8 / read_u32 of the VM: the value read and the ip left.           *)
(***************************************************************************)
ReadU8(p) ==
    IF p >= Len(instructions)
    THEN [err |-> "BytecodeTooShort", ip |-> p, value |-> 0]
    ELSE [err |-> "Ok", ip |-> p + 1, value |-> ByteAt(instructions, p)]

ReadU32(p) ==
    IF p + 4 > Len(instructions)
    THEN [err |-> "BytecodeTooShort", ip |-> p, value |-> 0]
    ELSE [err |-> "Ok", ip |-> p + 4, value |-> U32At(instructions, p)]

\* pop_number: pop, and require a Number
PopNumber(s) ==
    LET p == StackPop(s)
    IN  IF p.err # "Ok" THEN p
        ELSE IF p.value.t # "Number"
             THEN [err |-> "TypeMismatch", stack |-> p.stack, value |-> p.value]
             ELSE p

\* LoopCondition without the halted test
LoopConditionIgnoringHalted(h, p) == p < Len(instructions)

\* the loop condition of execute()
LoopCondition(h, p) == ~h /\ p < Len(instructions)

(***************************************************************************)
(* The history of one suspension: the ExternalCall left ip at ip; the host *)
(* then called apply_external_results(results) on the stack base, which    *)
(* returned err, and then resume().                                        *)
(***************************************************************************)
NoHandoff == [phase |-> "none", ip |-> 0, base |-> <<>>, results |-> <<>>, err |-> "Ok"]

Pending(ipAfter) == [NoHandoff EXCEPT !.phase = "suspended", !.ip = ipAfter]

Applied(h, base, results, err) ==
    [phase |-> "applied", ip |-> h.ip, base |-> base, results |-> results, err |-> err]

(***************************************************************************)
(* step(): one disjunct per arm of the match.  Every arm ends in Commit,   *)
(* which installs the VM fields the arm leaves, pushes the event the arm   *)
(* records (events holds it, or is empty), and sets the result of step()   *)
(* and the position of execute(): its loop goes on only after Ok and while *)
(* the loop condition holds.                                               *)
(***************************************************************************)
Commit(ipN, stackN, callN, haltedN, events, res) ==
    /\ ip' = ipN
    /\ stack' = stackN
    /\ call_stack' = callN
    /\ halted' = haltedN
    /\ state_changes' = IF events = <<>> THEN state_changes
                        ELSE RecordStateChange(state_changes, events[1])
    /\ execLog' = execLog \o events
    /\ lastOp' = "execute"
    /\ lastResult' = res
    /\ mode' = IF res = "Ok" /\ LoopCondition(haltedN, ipN) THEN "exec" ELSE "idle"
    /\ UNCHANGED <<instructions, constants, granted, loadResult, loadCaps, loadTarget, loadSummaries, fileVars, sideVars, handlerLog,
                   lastDrained, drainLog, resumedFrom, handlerCalls>>

\* the opcode step() dispatches on; in "exec" mode ip < instructions.len()
Opcode == FromU8(ByteAt(instructions, ip))

Fetching(op) == mode = "exec" /\ Opcode = op

StepInvalidOpcode ==
    /\ Fetching("None")
    /\ Commit(ip + 1, stack, call_stack, halted, <<>>, "InvalidOpcode")
    /\ UNCHANGED <<suspended, handoff, callLog>>

StepHalt ==
    /\ Fetching("Halt")
    /\ Commit(ip + 1, stack, call_stack, TRUE, <<>>, "Ok")
    /\ UNCHANGED <<suspended, handoff, callLog>>

StepPush ==
    /\ Fetching("Push")
    /\ LET r == ReadU8(ip + 1)
           c == ConstantGet(constants, r.value)
           p == StackPush(stack, c.value)
       IN  IF r.err # "Ok"
           THEN Commit(r.ip, stack, call_stack, halted, <<>>, r.err)
           ELSE IF c.err # "Ok"
           THEN Commit(r.ip, stack, call_stack, halted, <<>>, c.err)
           ELSE Commit(r.ip, p.stack, call_stack, halted, <<>>, p.err)
    /\ UNCHANGED <<suspended, handoff, callLog>>

StepPop ==
    /\ Fetching("Pop")
    /\ LET p == StackPop(stack)
       IN  Commit(ip + 1, p.stack, call_stack, halted, <<>>, p.err)
    /\ UNCHANGED <<suspended, handoff, callLog>>

StepDup ==
    /\ Fetching("Dup")
    /\ LET p == StackDup(stack)
       IN  Commit(ip + 1, p.stack, call_stack, halted, <<>>, p.err)
    /\ UNCHANGED <<suspended, handoff, callLog>>

StepLoadLocal ==
    /\ Fetching("LoadLocal")
    /\ LET r == ReadU8(ip + 1)
           frame == call_stack[Len(call_stack)]
           l == LocalsLoad(frame.locals, r.value)
           p == StackPush(stack, l.value)
       IN  IF r.err # "Ok"
           THEN Commit(r.ip, stack, call_stack, halted, <<>>, r.err)
           ELSE IF l.err # "Ok"
           THEN Commit(r.ip, stack, call_stack, halted, <<>>, l.err)
           ELSE Commit(r.ip, p.stack, call_stack, halted, <<>>, p.err)
    /\ UNCHANGED <<suspended, handoff, callLog>>

StepStoreLocal ==
    /\ Fetching("StoreLocal")
    /\ LET r == ReadU8(ip + 1)
           p == StackPop(stack)
           top == Len(call_stack)
           st == LocalsStore(call_stack[top].locals, r.value, p.value)
           frames == [call_stack EXCEPT ![top].locals = st.locals]
       IN  IF r.err # "Ok"
           THEN Commit(r.ip, stack, call_stack, halted, <<>>, r.err)
           ELSE IF p.err # "Ok"
           THEN Commit(r.ip, p.stack, call_stack, halted, <<>>, p.err)
           ELSE IF st.err # "Ok"
           THEN Commit(r.ip, p.stack, call_stack, halted, <<>>, st.err)
           ELSE Commit(r.ip, p.stack, frames, halted,
                       <<LocalStore(r.value, p.value)>>, "Ok")
    /\ UNCHANGED <<suspended, handoff, callLog>>

\* binary_numeric(op) for Add, Sub, Mul: a and b are Numbers n/d
Arith(op, a, b) ==
    CASE op = "Add" -> Number(a.n * b.d + b.n * a.d, a.d * b.d)
      [] op = "Sub" -> Number(a.n * b.d - b.n * a.d, a.d * b.d)
      [] op = "Mul" -> Number(a.n * b.n, a.d * b.d)

StepBinaryNumeric ==
    /\ mode = "exec" /\ Opcode \in {"Add", "Sub", "Mul"}
    /\ LET b == PopNumber(stack)
           a == PopNumber(b.stack)
           p == StackPush(a.stack, Arith(Opcode, a.value, b.value))
       IN  IF b.err # "Ok"
           THEN Commit(ip + 1, b.stack, call_stack, halted, <<>>, b.err)
           ELSE IF a.err # "Ok"
           THEN Commit(ip + 1, a.stack, call_stack, halted, <<>>, a.err)
           ELSE Commit(ip + 1, p.stack, call_stack, halted, <<>>, p.err)
    /\ UNCHANGED <<suspended, handoff, callLog>>

StepDiv ==
    /\ Fetching("Div")
    /\ LET b == PopNumber(stack)
           a == PopNumber(b.stack)
           p == StackPush(a.stack, Number(a.value.n * b.value.d, a.value.d * b.value.n))
       IN  IF b.err # "Ok"
           THEN Commit(ip + 1, b.stack, call_stack, halted, <<>>, b.err)
           ELSE IF b.value.n = 0
           THEN Commit(ip + 1, b.stack, call_stack, halted, <<>>, "DivisionByZero")
           ELSE IF a.err # "Ok"
           THEN Commit(ip + 1, a.stack, call_stack, halted, <<>>, a.err)
           ELSE Commit(ip + 1, p.stack, call_stack, halted, <<>>, p.err)
    /\ UNCHANGED <<suspended, handoff, callLog>>

\* compare(cmp) for Equal, NotEqual, Less, Greater
Compare(op, a, b) ==
    CASE op = "Equal"    -> a.n * b.d = b.n * a.d
      [] op = "NotEqual" -> a.n * b.d # b.n * a.d
      [] op = "Less"     -> a.n * b.d < b.n * a.d
      [] op = "Greater"  -> a.n * b.d > b.n * a.d

StepCompare ==
    /\ mode = "exec" /\ Opcode \in {"Equal", "NotEqual", "Less", "Greater"}
    /\ LET b == PopNumber(stack)
           a == PopNumber(b.stack)
           p == StackPush(a.stack, Bool(Compare(Opcode, a.value, b.value)))
       IN  IF b.err # "Ok"
           THEN Commit(ip + 1, b.stack, call_stack, halted, <<>>, b.err)
           ELSE IF a.err # "Ok"
           THEN Commit(ip + 1, a.stack, call_stack, halted, <<>>, a.err)
           ELSE Commit(ip + 1, p.stack, call_stack, halted, <<>>, p.err)
    /\ UNCHANGED <<suspended, handoff, callLog>>

\* PopArgs without args.reverse(): the arguments stay in the order they were popped
PopArgsUnreversed(s, argc) ==
    IF Len(s) < argc
    THEN [err |-> "StackUnderflow", stack |-> <<>>, args |-> <<>>]
    ELSE [err |-> "Ok", stack |-> SubSeq(s, 1, Len(s) - argc),
          args |-> [k \in 1..argc |-> s[Len(s) - k + 1]]]

\* the loop popping argc arguments, then args.reverse(); the loop stops at the
\* first failing pop
PopArgs(s, argc) ==
    IF Len(s) < argc
    THEN [err |-> "StackUnderflow", stack |-> <<>>, args |-> <<>>]
    ELSE [err |-> "Ok", stack |-> SubSeq(s, 1, Len(s) - argc),
          args |-> SubSeq(s, Len(s) - argc + 1, Len(s))]

StepExternalCall ==
    /\ Fetching("ExternalCall")
    /\ LET c == ReadU8(ip + 1)
           n == ReadU8(c.ip)
           a == PopArgs(stack, n.value)
           chk == RegistryCheck(granted, c.value)
       IN  IF c.err # "Ok"
           THEN Commit(c.ip, stack, call_stack, halted, <<>>, c.err)
                /\ UNCHANGED <<suspended, handoff, callLog>>
           ELSE IF n.err # "Ok"
           THEN Commit(n.ip, stack, call_stack, halted, <<>>, n.err)
                /\ UNCHANGED <<suspended, handoff, callLog>>
           ELSE IF a.err # "Ok"
           THEN Commit(n.ip, a.stack, call_stack, halted, <<>>, a.err)
                /\ UNCHANGED <<suspended, handoff, callLog>>
           ELSE IF chk # "Ok"
           THEN Commit(n.ip, a.stack, call_stack, halted, <<>>, chk)
                /\ UNCHANGED <<suspended, handoff, callLog>>
           ELSE Commit(n.ip, a.stack, call_stack, TRUE,
                       <<ExternalCallRequest(c.value, a.args)>>, "Ok")
                /\ suspended' = TRUE
                /\ handoff' = Pending(n.ip)
                /\ UNCHANGED callLog

\* TargetOutOfBounds never rejecting
TargetNeverOutOfBounds(target) == FALSE

\* the bounds check of Call on its target
TargetOutOfBounds(target) == target >= Len(instructions)

\* OnlyRootFrame letting the root frame be popped
OnlyRootFrameOffByOne(frames) == Len(frames) < 1

\* the test of Return for the root frame
OnlyRootFrame(frames) == Len(frames) <= 1

StepCall ==
    /\ Fetching("Call")
    /\ Len(call_stack) < MaxFrames
    /\ LET t == ReadU32(ip + 1)
           frames == Append(call_stack, CallFrame(t.ip, LocalsNew))
           made == Append(callLog, [target |-> t.value, depth |-> Len(stack),
                                    interrupted |-> FALSE])
       IN  IF t.err # "Ok"
           THEN Commit(t.ip, stack, call_stack, halted, <<>>, t.err)
                /\ UNCHANGED callLog
           ELSE IF TargetOutOfBounds(t.value)
           THEN Commit(t.ip, stack, frames, halted, <<>>, "InvalidJumpTarget")
                /\ callLog' = made
           ELSE Commit(t.value, stack, frames, halted, <<>>, "Ok")
                /\ callLog' = made
    /\ UNCHANGED <<suspended, handoff>>

StepReturn ==
    /\ Fetching("Return")
    /\ LET frame == call_stack[Len(call_stack)]
           frames == SubSeq(call_stack, 1, Len(call_stack) - 1)
           returned == SubSeq(callLog, 1, Len(callLog) - 1)
       IN  IF OnlyRootFrame(call_stack)
           THEN Commit(ip + 1, stack, call_stack, halted, <<>>, "RuntimeFault")
                /\ UNCHANGED callLog
           ELSE IF frame.return_ip > Len(instructions)
           THEN Commit(ip + 1, stack, frames, halted, <<>>, "InvalidJumpTarget")
                /\ callLog' = returned
           ELSE Commit(frame.return_ip, stack, frames, halted, <<>>, "Ok")
                /\ callLog' = returned
    /\ UNCHANGED <<suspended, handoff>>

\* the default arm: Mod, Neg, LessEqual, GreaterEqual, Jump, JumpIf, Nop
StepDefault ==
    /\ mode = "exec"
    /\ Opcode \in {"Mod", "Neg", "LessEqual", "GreaterEqual", "Jump", "JumpIf", "Nop"}
    /\ Commit(ip + 1, stack, call_stack, halted, <<>>, "RuntimeFault")
    /\ UNCHANGED <<suspended, handoff, callLog>>

(***************************************************************************)
(* The host's calls (mode = "idle").                                       *)
(***************************************************************************)
\* what halted the VM: the Halt opcode, an ExternalCall, or nothing
HaltedBy ==
    IF ~halted THEN "none" ELSE IF suspended THEN "ExternalCall" ELSE "Halt"

\* the capability ids the host may grant
Caps == {42}

\* the result vectors the host may hand to apply_external_results
ResultChoices == {<<>>, <<Null>>, <<Number(1, 1), Ref(7)>>}

\* execute(): enter the loop, or return Ok at once when its condition fails
Execute ==
    /\ mode = "idle"
    /\ mode' = IF LoopCondition(halted, ip) THEN "exec" ELSE "idle"
    /\ lastOp' = "execute"
    /\ lastResult' = "Ok"
    /\ handoff' = IF handoff.phase = "resumed" THEN NoHandoff ELSE handoff
    /\ resumedFrom' = "none"
    /\ callLog' = [k \in DOMAIN callLog |-> [callLog[k] EXCEPT !.interrupted = TRUE]]
    /\ UNCHANGED <<instructions, constants, ip, stack, call_stack, halted,
                   state_changes, granted, loadResult, loadCaps, loadTarget, loadSummaries, fileVars, sideVars, handlerLog,
                   lastDrained, execLog, drainLog, suspended, handlerCalls>>

DrainStateChanges ==
    /\ mode = "idle"
    /\ LET t == TakeStateChanges(state_changes)
       IN  /\ lastDrained' = t.returned
           /\ drainLog' = drainLog \o t.returned
           /\ state_changes' = t.left
    /\ lastOp' = "drain_state_changes"
    /\ lastResult' = "Ok"
    /\ UNCHANGED <<instructions, constants, ip, stack, call_stack, halted, granted,
                   loadResult, loadCaps, loadTarget, loadSummaries, fileVars, sideVars, handlerLog, callLog, mode, execLog, suspended,
                   handoff, resumedFrom, handlerCalls>>

GrantCapability ==
    /\ mode = "idle"
    /\ \E id \in Caps : granted' = RegistryGrant(granted, id)
    /\ lastOp' = "grant_capability"
    /\ lastResult' = "Ok"
    /\ UNCHANGED <<instructions, constants, ip, stack, call_stack, halted,
                   state_changes, loadResult, loadCaps, loadTarget, loadSummaries, fileVars, sideVars, handlerLog, callLog, mode,
                   lastDrained, execLog, drainLog, suspended, handoff, resumedFrom,
                   handlerCalls>>

Resume ==
    /\ mode = "idle"
    /\ halted' = FALSE
    /\ suspended' = FALSE
    /\ handoff' = IF handoff.phase = "applied"
                  THEN [handoff EXCEPT !.phase = "resumed"] ELSE NoHandoff
    /\ resumedFrom' = HaltedBy
    /\ lastOp' = "resume"
    /\ lastResult' = "Ok"
    /\ UNCHANGED <<instructions, constants, ip, stack, call_stack, state_changes,
                   granted, loadResult, loadCaps, loadTarget, loadSummaries, fileVars, sideVars, handlerLog, callLog, mode, lastDrained,
                   execLog, drainLog, handlerCalls>>

\* PushAll pushing the last result first
RECURSIVE PushAllBackwards(_, _)
PushAllBackwards(s, results) ==
    IF results = <<>> THEN [err |-> "Ok", stack |-> s]
    ELSE LET p == StackPush(s, results[Len(results)])
         IN  IF p.err # "Ok" THEN p
             ELSE PushAllBackwards(p.stack, SubSeq(results, 1, Len(results) - 1))

\* the for loop of apply_external_results: it stops at the first failing push
RECURSIVE PushAll(_, _)
PushAll(s, results) ==
    IF results = <<>> THEN [err |-> "Ok", stack |-> s]
    ELSE LET p == StackPush(s, Head(results))
         IN  IF p.err # "Ok" THEN p ELSE PushAll(p.stack, Tail(results))

ApplyExternalResults ==
    /\ mode = "idle"
    /\ \E results \in ResultChoices :
          LET p == PushAll(stack, results)
          IN  /\ stack' = p.stack
              /\ lastResult' = p.err
              /\ handoff' = IF handoff.phase = "suspended"
                            THEN Applied(handoff, stack, results, p.err)
                            ELSE NoHandoff
    /\ lastOp' = "apply_external_results"
    /\ UNCHANGED <<instructions, constants, ip, call_stack, halted, state_changes,
                   granted, loadResult, loadCaps, loadTarget, loadSummaries, fileVars, sideVars, handlerLog, callLog, mode, lastDrained,
                   execLog, drainLog, suspended, resumedFrom, handlerCalls>>

PopTop ==
    /\ mode = "idle"
    /\ LET p == StackPop(stack)
       IN  stack' = p.stack /\ lastResult' = p.err
    /\ handoff' = NoHandoff
    /\ lastOp' = "pop_top"
    /\ UNCHANGED <<instructions, constants, ip, call_stack, halted, state_changes,
                   granted, loadResult, loadCaps, loadTarget, loadSummaries, fileVars, sideVars, handlerLog, callLog, mode, lastDrained,
                   execLog, drainLog, suspended, resumedFrom, handlerCalls>>

(***************************************************************************)
(* consume_external_call (vre-vol/src/lib.rs, vre-core/src/vol.rs): drain  *)
(* the buffer, hand the first ExternalCallRequest to the host's handler,   *)
(* apply what it returns and resume.                                       *)
(***************************************************************************)
\* IsRequest matching every change
IsRequestAnyChange(change) == TRUE

\* the match arm StateChange::ExternalCallRequest { .. }
IsRequest(change) == change.kind = "ExternalCallRequest"

\* FirstRequest returning the last request of the batch
FirstRequestTakingLast(changes) ==
    IF \E k \in 1..Len(changes) : IsRequest(changes[k])
    THEN CHOOSE k \in 1..Len(changes) :
            /\ IsRequest(changes[k])
            /\ \A j \in (k + 1)..Len(changes) : ~IsRequest(changes[j])
    ELSE 0

\* the for loop over the drained batch: the position of the change whose arm
\* returns, 0 when the loop runs to its end
FirstRequest(changes) ==
    IF \E k \in 1..Len(changes) : IsRequest(changes[k])
    THEN CHOOSE k \in 1..Len(changes) :
            /\ IsRequest(changes[k])
            /\ \A j \in 1..(k - 1) : ~IsRequest(changes[j])
    ELSE 0

\* what the host's handler may return: Ok(results) or an error
HandlerOutcomes ==
    {[err |-> "Ok", results |-> r] : r \in ResultChoices}
        \cup {[err |-> "RuntimeFault", results |-> <<>>]}

ConsumeExternalCall ==
    /\ mode = "idle"
    /\ LET t == TakeStateChanges(state_changes)
           i == FirstRequest(t.returned)
       IN  /\ state_changes' = t.left
           /\ lastDrained' = t.returned
           /\ drainLog' = drainLog \o t.returned
           /\ IF i = 0
              THEN /\ lastResult' = "RuntimeFault"
                   /\ handlerCalls' = <<>>
                   /\ handlerLog' = handlerLog
                   /\ UNCHANGED <<stack, halted, suspended, handoff, resumedFrom>>
              ELSE \E o \in HandlerOutcomes :
                      LET p == PushAll(stack, o.results)
                      IN  /\ handlerCalls' = <<[request |-> t.returned[i], returned |-> o]>>
                          /\ handlerLog' = Append(handlerLog, t.returned[i])
                          /\ IF o.err # "Ok"
                             THEN /\ lastResult' = o.err
                                  /\ UNCHANGED <<stack, halted, suspended, handoff,
                                                 resumedFrom>>
                             ELSE IF p.err # "Ok"
                             THEN /\ lastResult' = p.err
                                  /\ stack' = p.stack
                                  /\ handoff' = NoHandoff
                                  /\ UNCHANGED <<halted, suspended, resumedFrom>>
                             ELSE /\ lastResult' = "Ok"
                                  /\ stack' = p.stack
                                  /\ halted' = FALSE
                                  /\ suspended' = FALSE
                                  /\ handoff' = NoHandoff
                                  /\ resumedFrom' = HaltedBy
    /\ lastOp' = "consume_external_call"
    /\ UNCHANGED <<instructions, constants, ip, call_stack, granted, loadResult,
                   loadCaps, loadTarget, loadSummaries, fileVars, sideVars, callLog, mode, execLog>>

(***************************************************************************)
(* The bundles the VM is built from: constants, instruction bytes and the  *)
(* entry point of the header.                                              *)
(***************************************************************************)
\* a callee A that calls a callee B and pushes, B pushing as well; main calls
\* A and then runs the given instructions
NestedCall(rest) ==
    LET a == 5 + Len(rest)
        b == a + 8
    IN  <<66, 0, 0, 0, a>> \o rest
            \o <<66, 0, 0, 0, b, 1, 0, 67>>      \* A: Call B, Push 0, Return
            \o <<1, 0, 67>>                      \* B: Push 0, Return

BundleAt(consts, ins, entry) ==
    [constants |-> consts, instructions |-> ins, entry_point |-> entry]

Bundle(consts, ins) == BundleAt(consts, ins, 0)

Programs ==
    { Bundle(<<>>, <<>>),                                   \* empty stream
      Bundle(<<Number(42, 1)>>, <<1, 0, 17, 0, 255>>),      \* Push StoreLocal Halt
      Bundle(<<Ref(7)>>, <<1, 0, 80, 42, 1, 255>>),         \* Push ExternalCall Halt
      Bundle(<<>>, <<255, 2>>),                             \* Halt Pop
      Bundle(<<>>, <<2>>),                                  \* Pop
      Bundle(<<>>, <<240, 2>>),                             \* Nop Pop
      Bundle(<<>>, <<66, 0, 0, 0, 0>>),                     \* Call 0
      Bundle(<<>>, <<66, 0, 0, 0, 9>>),                     \* Call out of range
      Bundle(<<Number(1, 1)>>,                              \* Call f Halt f: Push StoreLocal Return
             <<66, 0, 0, 0, 6, 255, 1, 0, 17, 0, 67>>),
      Bundle(<<>>, <<67, 255>>),                            \* Return Halt
      Bundle(<<>>, <<80, 42, 1>>),                          \* ExternalCall, no argument
      Bundle(<<Null>>, <<1, 0, 3, 3, 3, 3, 255>>),          \* Push Dup Dup Dup Dup Halt
      Bundle(<<Number(1, 1)>>,                              \* Add Sub Mul Div Equal
             <<1, 0, 1, 0, 32, 1, 0, 33, 3, 34, 1, 0, 35, 3, 48, 255>>),
      Bundle(<<Number(1, 1), Number(0, 1)>>, <<1, 0, 1, 1, 35>>),   \* Div by zero
      Bundle(<<Null, Number(1, 1)>>, <<1, 0, 1, 1, 32, 2>>),        \* Add on Null, Pop
      Bundle(<<Number(1, 1), Number(2, 1)>>,                \* Less Greater NotEqual
             <<1, 0, 1, 1, 50, 2, 1, 0, 1, 1, 52, 2, 1, 0, 1, 1, 49>>),
      Bundle(<<>>, <<1>>),                                  \* Push, truncated
      Bundle(<<>>, <<66, 0>>),                              \* Call, truncated
      Bundle(<<>>, <<80, 42>>),                             \* ExternalCall, truncated
      Bundle(<<>>, <<99>>),                                 \* unknown opcode
      Bundle(<<>>, <<1, 9>>),                               \* Push of a missing constant
      Bundle(<<>>, <<16, 0, 17, 5, 16, 5>>),                \* LoadLocal StoreLocal(5) LoadLocal(5)
      Bundle(<<>>, <<64, 0, 0, 0, 0>>),                     \* Jump 0
      Bundle(<<Number(1, 1), Ref(7)>>,                      \* Push Push ExternalCall(2) Halt
             <<1, 0, 1, 1, 80, 42, 2, 255>>),
      Bundle(<<Number(1, 1)>>,                              \* store, call, store, call
             <<1, 0, 17, 0, 1, 0, 80, 42, 1, 1, 0, 17, 0, 80, 42, 0, 255>>),
      Bundle(<<Number(1, 1), Ref(7)>>,                      \* store, Call f, Halt,
             <<1, 0, 17, 0, 66, 0, 0, 0, 10, 255,           \* f: Push StoreLocal Return
               1, 1, 17, 0, 67>>),
      Bundle(<<Bool(TRUE)>>, <<1, 0, 65, 0, 0, 0, 0>>),     \* Push true, JumpIf 0
      Bundle(<<Bool(FALSE)>>, <<1, 0, 65, 0, 0, 0, 0, 255>>),   \* Push false, JumpIf 0, Halt
      Bundle(<<Number(1, 1), Number(0, 1)>>, <<1, 0, 1, 1, 36>>),   \* Mod by zero
      BundleAt(<<Number(42, 1)>>,                           \* entry point behind a Halt
               <<255, 1, 0, 17, 0, 255>>, 1),
      Bundle(<<Number(1, 1)>>, NestedCall(<<255>>)) }   \* Call A Halt, A calling B

(***************************************************************************)
(* VirtualMachine::new on a bundle; loadResult is what the strict loader   *)
(* answers for the bundle's instruction stream.                            *)
(***************************************************************************)
Init ==
    /\ \E b \in Programs :
          /\ instructions = b.instructions
          /\ constants = b.constants
          /\ entry_point = b.entry_point
          /\ \E r \in LoadOutcomes(b.instructions) :
                /\ loadResult = r.err
                /\ loadCaps = r.caps
                /\ loadTarget = r.target
                /\ loadSummaries = r.summaries
    /\ ip = 0
    /\ stack = <<>>
    /\ call_stack = <<CallFrame(0, LocalsNew)>>
    /\ halted = FALSE
    /\ state_changes = <<>>
    /\ granted = {}
    /\ mode = "idle"
    /\ lastOp = "new"
    /\ lastResult = "Ok"
    /\ lastDrained = <<>>
    /\ execLog = <<>>
    /\ drainLog = <<>>
    /\ suspended = FALSE
    /\ handoff = NoHandoff
    /\ resumedFrom = "none"
    /\ handlerCalls = <<>>
    /\ an = NotAnalyzing
    /\ front = NotStarted
    /\ handlerLog = <<>>
    /\ callLog = <<>>
    /\ bytes = <<>>
    /\ layout = <<>>
    /\ allow_opt_in = FALSE
    /\ lenient = FALSE

Step ==
    \/ StepInvalidOpcode
    \/ StepHalt
    \/ StepPush
    \/ StepPop
    \/ StepDup
    \/ StepLoadLocal
    \/ StepStoreLocal
    \/ StepBinaryNumeric
    \/ StepDiv
    \/ StepCompare
    \/ StepExternalCall
    \/ StepCall
    \/ StepReturn
    \/ StepDefault

Next ==
    \/ Execute
    \/ Step
    \/ DrainStateChanges
    \/ GrantCapability
    \/ Resume
    \/ ApplyExternalResults
    \/ PopTop

Spec == Init /\ [][Next]_vars

\* a host that never calls pop_top
NextNoPopTop ==
    \/ Execute
    \/ Step
    \/ DrainStateChanges
    \/ GrantCapability
    \/ Resume
    \/ ApplyExternalResults

SpecNoPopTop == Init /\ [][NextNoPopTop]_vars

\* a host that answers requests through the helper consume_external_call as
\* well as by hand (and never calls pop_top)
NextVol ==
    \/ NextNoPopTop
    \/ ConsumeExternalCall

SpecVol == Init /\ [][NextVol]_vars

(***************************************************************************)
(* The host loop of the vre-vol front end (main.rs 157, 222-235): it       *)
(* grants before it runs the VM, then calls execute() and                  *)
(* consume_external_call() in turn, and never resume() or                  *)
(* drain_state_changes() itself.                                           *)
(***************************************************************************)
GrantBeforeRun ==
    /\ lastOp \in {"new", "grant_capability"}
    /\ GrantCapability

ExecuteInTurn ==
    /\ lastOp \in {"new", "grant_capability", "consume_external_call"}
    /\ Execute

ConsumeInTurn ==
    /\ lastOp = "execute"
    /\ ConsumeExternalCall

NextTurns ==
    \/ Step
    \/ GrantBeforeRun
    \/ ExecuteInTurn
    \/ ConsumeInTurn

SpecTurns == Init /\ [][NextTurns]_vars

(***************************************************************************)
(* Strict validation on its own: BytecodeLoader::load from the point where *)
(* the instruction bytes have been cut out of the buffer.  The streams are *)
(* all concatenations of at most MaxInstrs encodings.                      *)
(***************************************************************************)
\* the number of encodings a stream is built from
MaxInstrs == 3

\* the target offsets of the Jump, JumpIf and Call encodings
Targets == {0, 5}

Encodings ==
    { <<1, 0>>,          \* Push 0
      <<2>>,             \* Pop
      <<32>>,            \* Add
      <<37>>,            \* Neg
      <<80, 42, 1>>,     \* ExternalCall 42, one argument
      <<80, 7, 0>>,      \* ExternalCall 7, no argument
      <<67>>,            \* Return
      <<255>>,           \* Halt
      <<99>> }           \* not an opcode
    \cup {<<op, 0, 0, 0, t>> : op \in {64, 65, 66}, t \in Targets}

RECURSIVE StreamsOf(_)
StreamsOf(n) ==
    IF n = 0 THEN {<<>>}
    ELSE LET S == StreamsOf(n - 1) IN S \cup {s \o e : s \in S, e \in Encodings}

Streams == StreamsOf(MaxInstrs)

\* two callees that call each other: A at offset a, B at offset b, each a
\* body of pushes and pops, the Call of the other and a tail ending in Return;
\* entry is "none" (the stream starts with A) or names the callee that a
\* leading Call, followed by Halt, enters
MutualRecursion(entry, bodyA, tailA, bodyB, tailB, suffix) ==
    LET a == IF entry = "none" THEN 0 ELSE 6
        b == a + Len(bodyA) + 5 + Len(tailA)
        prefix == IF entry = "none" THEN <<>>
                  ELSE <<66, 0, 0, 0, IF entry = "A" THEN a ELSE b, 255>>
    IN  [a |-> a, b |-> b,
         stream |-> prefix \o bodyA \o <<66, 0, 0, 0, b>> \o tailA
                           \o bodyB \o <<66, 0, 0, 0, a>> \o tailB \o suffix]

\* bodies that push, then pop, and are back at the entry height
BalancedBodies == {<<1, 0, 2>>, <<1, 0, 1, 0, 2, 2>>, <<1, 0, 2, 1, 0, 2>>}

\* what follows the Call of the other callee
ReturningTails == {<<67>>, <<1, 0, 2, 67>>}

MutualRecursions ==
    {MutualRecursion(entry, bodyA, tailA, bodyB, tailB, suffix) :
        entry \in {"none", "A", "B"},
        bodyA \in BalancedBodies, tailA \in ReturningTails,
        bodyB \in BalancedBodies, tailB \in ReturningTails,
        suffix \in {<<>>, <<255>>}}

NestedCallStreams ==
    { NestedCall(<<255>>),                \* Call A, Halt
      NestedCall(<<2, 255>>),             \* Call A, Pop, Halt
      NestedCall(<<2, 2, 255>>),          \* Call A, Pop, Pop, Halt
      NestedCall(<<2, 2, 2, 255>>) }      \* Call A, Pop, Pop, Pop, Halt

InitLoad ==
    /\ instructions \in Streams \cup {m.stream : m \in MutualRecursions}
                             \cup NestedCallStreams
    /\ constants = <<>>
    /\ loadResult = "NotLoaded"
    /\ loadCaps = {}
    /\ loadTarget = -1
    /\ loadSummaries = <<>>
    /\ ip = 0
    /\ stack = <<>>
    /\ call_stack = <<CallFrame(0, LocalsNew)>>
    /\ halted = FALSE
    /\ state_changes = <<>>
    /\ granted = {}
    /\ mode = "idle"
    /\ lastOp = "none"
    /\ lastResult = "Ok"
    /\ lastDrained = <<>>
    /\ execLog = <<>>
    /\ drainLog = <<>>
    /\ suspended = FALSE
    /\ handoff = NoHandoff
    /\ resumedFrom = "none"
    /\ handlerCalls = <<>>
    /\ an = NotAnalyzing
    /\ front = NotStarted
    /\ handlerLog = <<>>
    /\ callLog = <<>>
    /\ bytes = <<>>
    /\ layout = <<>>
    /\ entry_point = 0
    /\ allow_opt_in = FALSE
    /\ lenient = FALSE

\* load(): validate the stream and collect its capability ids
Load ==
    /\ loadResult = "NotLoaded"
    /\ \E r \in LoadOutcomes(instructions) :
          /\ loadResult' = r.err
          /\ loadCaps' = r.caps
          /\ loadTarget' = r.target
          /\ loadSummaries' = r.summaries
    /\ lastOp' = "load"
    /\ lastResult' = loadResult'
    /\ UNCHANGED <<instructions, constants, ip, stack, call_stack, halted,
                   state_changes, granted, mode, lastDrained, execLog, drainLog,
                   suspended, handoff, resumedFrom, handlerCalls, fileVars, sideVars, handlerLog, callLog>>

NextLoad == Load

SpecLoad == InitLoad /\ [][NextLoad]_vars

(***************************************************************************)
(* The loader on whole files: load and load_with_opt_in on buffers cut     *)
(* from encoded file layouts at every length.                              *)
(***************************************************************************)
\* the number of constants a file layout holds at most
MaxConstants == 2

\* u32::to_be_bytes
U32Be(n) == <<n \div 16777216, (n \div 65536) % 256, (n \div 256) % 256, n % 256>>

RECURSIVE Flatten(_)
Flatten(seqs) == IF seqs = <<>> THEN <<>> ELSE Head(seqs) \o Flatten(Tail(seqs))

\* the bytes of a file: magic, version, reserved, entry point, the constants
\* behind their count, the instruction bytes behind their length
Encode(f) ==
    f.magic \o <<f.major, f.minor, f.patch, 0>> \o U32Be(f.entry)
            \o U32Be(Len(f.consts)) \o Flatten(f.consts)
            \o U32Be(Len(f.instr)) \o f.instr

MagicBytes == <<86, 89, 77, 65>>

Header(magic, major, minor, patch, entry) ==
    [magic |-> magic, major |-> major, minor |-> minor, patch |-> patch,
     entry |-> entry]

GoodHeader == Header(MagicBytes, 1, 0, 0, 0)

OtherHeaders ==
    { Header(<<86, 89, 77, 66>>, 1, 0, 0, 0),     \* wrong magic
      Header(<<0, 89, 77, 65>>, 2, 0, 0, 0),      \* wrong magic and major
      Header(MagicBytes, 2, 0, 0, 0),             \* wrong major
      Header(MagicBytes, 0, 1, 1, 0),             \* wrong major
      Header(MagicBytes, 1, 3, 7, 0),             \* other minor and patch
      Header(MagicBytes, 1, 0, 0, 1) }            \* entry point 1

ConstantEncodings ==
    { <<0>>,                                \* Null
      <<1, 1>>,                             \* Bool(true)
      <<1, 0>>,                             \* Bool(false)
      <<2, 63, 240, 0, 0, 0, 0, 0, 0>>,     \* Number(1.0)
      <<255, 0, 0, 0, 7>>,                  \* Ref(7)
      <<3>> }                               \* not a tag

RECURSIVE ConstantListsOf(_)
ConstantListsOf(n) ==
    IF n = 0 THEN {<<>>}
    ELSE LET S == ConstantListsOf(n - 1)
         IN  S \cup {Append(cs, c) : cs \in S, c \in ConstantEncodings}

FileStreams ==
    { <<>>,
      <<255>>,                              \* Halt
      <<1, 0, 2, 255>>,                     \* Push Pop Halt
      <<80, 42, 0, 255>>,                   \* ExternalCall 42, Halt
      <<255, 80, 7, 0>>,                    \* Halt, ExternalCall 7
      <<2>>,                                \* Pop at height 0
      <<66, 0, 255, 255, 255, 255>>,        \* Call out of range, Halt
      <<64, 0, 0, 0, 1>>,                   \* Jump into an immediate
      <<99>>,                               \* not an opcode
      <<1>> }                               \* Push without its immediate

File(h, consts, instr) ==
    [magic |-> h.magic, major |-> h.major, minor |-> h.minor, patch |-> h.patch,
     entry |-> h.entry, consts |-> consts, instr |-> instr]

Files ==
    {File(GoodHeader, cs, ins) : cs \in ConstantListsOf(MaxConstants), ins \in FileStreams}
    \cup {File(h, cs, <<255>>) : h \in OtherHeaders, cs \in ConstantListsOf(1)}

\* a file cut to its first n bytes
Cut(f, n) == [file |-> f, cut |-> n]

InitFile ==
    /\ \E f \in Files : \E n \in 0..Len(Encode(f)) :
          /\ layout = Cut(f, n)
          /\ bytes = SubSeq(Encode(f), 1, n)
    /\ instructions = <<>>
    /\ constants = <<>>
    /\ entry_point = 0
    /\ allow_opt_in = FALSE
    /\ lenient = FALSE
    /\ loadResult = "NotLoaded"
    /\ loadCaps = {}
    /\ loadTarget = -1
    /\ loadSummaries = <<>>
    /\ ip = 0
    /\ stack = <<>>
    /\ call_stack = <<CallFrame(0, LocalsNew)>>
    /\ halted = FALSE
    /\ state_changes = <<>>
    /\ granted = {}
    /\ mode = "idle"
    /\ lastOp = "none"
    /\ lastResult = "Ok"
    /\ lastDrained = <<>>
    /\ execLog = <<>>
    /\ drainLog = <<>>
    /\ suspended = FALSE
    /\ handoff = NoHandoff
    /\ resumedFrom = "none"
    /\ handlerCalls = <<>>
    /\ an = NotAnalyzing
    /\ front = NotStarted
    /\ handlerLog = <<>>
    /\ callLog = <<>>

\* what load may return for a buffer
LoadBytesOutcomes(b) == {LoadBytes(b, order) : order \in BufferOrders(b)}

\* what load_with_opt_in may return for a buffer and a flag
LoadWithOptInOutcomes(b, allow) ==
    {LoadWithOptInBytes(b, allow, order) : order \in BufferOrders(b)}

\* the loader has returned r
Returns(r) ==
    /\ loadResult' = r.err
    /\ constants' = r.constants
    /\ instructions' = r.instructions
    /\ entry_point' = r.entry_point
    /\ loadCaps' = r.caps
    /\ loadTarget' = r.target
    /\ loadSummaries' = r.summaries
    /\ lenient' = r.lenient
    /\ lastResult' = r.err
    /\ UNCHANGED <<ip, stack, call_stack, halted, state_changes, granted, mode,
                   lastDrained, execLog, drainLog, suspended, handoff,
                   resumedFrom, handlerCalls, bytes, layout, sideVars,
                   handlerLog, callLog>>

\* BytecodeLoader::load(bytes)
LoadFile ==
    /\ loadResult = "NotLoaded"
    /\ \E r \in LoadBytesOutcomes(bytes) : Returns(r)
    /\ lastOp' = "load"
    /\ UNCHANGED allow_opt_in

\* BytecodeLoader::load_with_opt_in(bytes, allow)
LoadWithOptIn ==
    /\ loadResult = "NotLoaded"
    /\ \E allow \in BOOLEAN :
          /\ allow_opt_in' = allow
          /\ \E r \in LoadWithOptInOutcomes(bytes, allow) : Returns(r)
    /\ lastOp' = "load_with_opt_in"

NextFile ==
    \/ LoadFile
    \/ LoadWithOptIn

SpecFile == InitFile /\ [][NextFile]_vars

(***************************************************************************)
(* The vre-vol front end from the construction of the VM to the first      *)
(* execute() (main.rs 157-219) with its Policy (policy.rs).  front holds   *)
(* the flags parsed from the command line, the caps the loader returned,   *)
(* the policy and the position in main.                                    *)
(***************************************************************************)
\* Policy::new(allow_list): an empty audit log and no TTL grants
PolicyNew(allow_list) == [allow_list |-> allow_list, audit |-> <<>>, ttl_grants |-> <<>>]

\* Policy::record
PolicyRecord(policy, entry) == [policy EXCEPT !.audit = Append(policy.audit, entry)]

\* Policy::is_granted_by_ttl: some grant of cap has not expired
IsGrantedByTtl(policy, cap) ==
    \E k \in 1..Len(policy.ttl_grants) :
        policy.ttl_grants[k].cap = cap /\ ~policy.ttl_grants[k].expired

\* PolicyAllows allowing every capability
PolicyAllowsEverything(policy, cap) == TRUE

\* Policy::allows
PolicyAllows(policy, cap) ==
    IsGrantedByTtl(policy, cap) \/ cap \in policy.allow_list

\* the entries main records: format!("granted cap {} via loader", c) and
\* format!("denied cap {} via loader", c)
AuditEntry(decision, cap) == [decision |-> decision, cap |-> cap]

\* the capability ids of the command line, the allow-list file and the loader
FrontCaps == {7, 9, 42}

\* the caps vectors the loader may return: no id twice
CapVectors ==
    {<<>>} \cup {<<c>> : c \in FrontCaps}
           \cup {<<p[1], p[2]>> : p \in {q \in FrontCaps \X FrontCaps : q[1] # q[2]}}

InitFront ==
    /\ \E cap \in FrontCaps, flag \in BOOLEAN, cli \in SUBSET FrontCaps,
          load \in {"none", "loaded", "failed"}, file \in {{}, {9}},
          caps \in CapVectors :
          front = [pc |-> "new", cap_to_grant |-> cap, grant_bytecode_caps |-> flag,
                   policy_allow_list |-> cli, policy_load_path |-> load,
                   loaded_list |-> file, caps |-> caps, policy |-> PolicyNew({}),
                   k |-> 1]
    /\ instructions = <<>>
    /\ constants = <<>>
    /\ entry_point = 0
    /\ allow_opt_in = FALSE
    /\ lenient = FALSE
    /\ bytes = <<>>
    /\ layout = <<>>
    /\ loadResult = "Ok"
    /\ loadCaps = {}
    /\ loadTarget = -1
    /\ loadSummaries = <<>>
    /\ ip = 0
    /\ stack = <<>>
    /\ call_stack = <<CallFrame(0, LocalsNew)>>
    /\ halted = FALSE
    /\ state_changes = <<>>
    /\ granted = {}
    /\ mode = "idle"
    /\ lastOp = "new"
    /\ lastResult = "Ok"
    /\ lastDrained = <<>>
    /\ execLog = <<>>
    /\ drainLog = <<>>
    /\ suspended = FALSE
    /\ handoff = NoHandoff
    /\ resumedFrom = "none"
    /\ handlerCalls = <<>>
    /\ an = NotAnalyzing
    /\ handlerLog = <<>>
    /\ callLog = <<>>

\* what the front end leaves alone: everything but the registry and its own locals
FrontUnchanged ==
    UNCHANGED <<instructions, constants, ip, stack, call_stack, halted, state_changes,
                loadResult, loadCaps, loadTarget, loadSummaries, mode, lastOp,
                lastResult, lastDrained, execLog, drainLog, suspended, handoff,
                resumedFrom, handlerCalls, fileVars, an, handlerLog, callLog>>

\* vm.grant_capability(cap_to_grant), right after VirtualMachine::new
GrantCapToGrant ==
    /\ front.pc = "new"
    /\ granted' = RegistryGrant(granted, front.cap_to_grant)
    /\ front' = [front EXCEPT !.pc = "policy"]
    /\ FrontUnchanged

\* the position behind the construction of the policy: the for loop over
\* caps when --grant-bytecode-caps was given and caps is not empty
AfterPolicy == IF front.grant_bytecode_caps /\ front.caps # <<>> THEN "caps" ELSE "run"

\* the allow-list file was read: the policy is built from its list extended
\* by the command line's
BuildPolicyFromFile ==
    /\ front.pc = "policy"
    /\ front.policy_load_path = "loaded"
    /\ front' = [front EXCEPT
                    !.policy = PolicyNew(front.loaded_list \cup front.policy_allow_list),
                    !.pc = AfterPolicy]
    /\ UNCHANGED granted
    /\ FrontUnchanged

\* the allow-list file could not be read: no policy, nothing more is granted
PolicyLoadFailed ==
    /\ front.pc = "policy"
    /\ front.policy_load_path = "failed"
    /\ front' = [front EXCEPT !.pc = "run"]
    /\ UNCHANGED granted
    /\ FrontUnchanged

\* no allow-list file: the policy is built from the command line's list
BuildPolicy ==
    /\ front.pc = "policy"
    /\ front.policy_load_path = "none"
    /\ front' = [front EXCEPT !.policy = PolicyNew(front.policy_allow_list),
                              !.pc = AfterPolicy]
    /\ UNCHANGED granted
    /\ FrontUnchanged

\* one iteration of the for loop over caps
GrantOrDeny ==
    /\ front.pc = "caps"
    /\ LET c == front.caps[front.k]
           allowed == PolicyAllows(front.policy, c)
           entry == AuditEntry(IF allowed THEN "granted" ELSE "denied", c)
       IN  /\ granted' = IF allowed THEN RegistryGrant(granted, c) ELSE granted
           /\ front' = [front EXCEPT
                           !.policy = PolicyRecord(front.policy, entry),
                           !.k = front.k + 1,
                           !.pc = IF front.k = Len(front.caps) THEN "run" ELSE "caps"]
    /\ FrontUnchanged

NextFront ==
    \/ GrantCapToGrant
    \/ BuildPolicyFromFile
    \/ PolicyLoadFailed
    \/ BuildPolicy
    \/ GrantOrDeny

SpecFront == InitFront /\ [][NextFront]_vars

(***************************************************************************)
(* analyze_instructions_cfg run step by step (loader.rs 93-456): an holds  *)
(* its locals and pc the loop it is in.  One step is one evaluation of a   *)
(* while condition, one iteration of a for loop over a snapshot of         *)
(* pending up to the start of a worklist, or one iteration of a worklist.  *)
(***************************************************************************)
\* the streams analysed step by step
WorklistStreams ==
    { <<>>,
      <<99>>,                                       \* not an opcode
      <<64, 0, 0, 0, 1>>,                           \* Jump into an immediate
      <<2>>,                                        \* Pop at height 0
      <<80, 42, 0, 255>>,                           \* ExternalCall, Halt
      <<1, 0, 64, 0, 0, 0, 0>>,                     \* Push, Jump 0
      <<1, 0, 65, 0, 0, 0, 8, 2, 255>>,             \* Push, JumpIf 8, Pop, Halt
      <<66, 0, 0, 0, 0, 255>>,                      \* Call 0, Halt
      <<66, 0, 0, 0, 6, 255,                        \* Call 6, Halt,
        1, 0, 65, 0, 0, 0, 14, 2, 67>>,             \*   Push, JumpIf 14, Pop, Return
      <<66, 0, 0, 0, 6, 255,                        \* Call 6, Halt,
        1, 0, 2, 64, 0, 0, 0, 6>>,                  \*   Push, Pop, Jump 6
      <<66, 0, 0, 0, 14, 1, 0, 65, 0, 0, 0, 13,     \* Call 14, Push, JumpIf 13,
        2, 255, 1, 0, 2, 67>> }                     \*   Pop, Halt, Push, Pop, Return
        \cup NestedCallStreams
        \cup {m.stream : m \in MutualRecursions}

\* metas and succs of the stream being analysed, once they are built
AnMetas == an.metas

AnSuccs == an.succs

\* a worklist holding only instruction idx, at height 0
Worklist(idx) ==
    [heights |-> [i \in 1..Len(AnMetas) |-> 0], seen |-> {idx}, q |-> <<idx>>]

NoWorklist == [heights |-> <<>>, seen |-> {}, q |-> <<>>]

\* the locals on entry; order is the order in which pending is iterated
Analyzing(order) ==
    [pc |-> "decode", order |-> order, metas |-> <<>>, succs |-> <<>>,
     summaries |-> <<>>, pending |-> {},
     progress |-> TRUE, progress2 |-> FALSE, outer |-> <<>>, cur |-> <<>>, k |-> 1,
     st |-> NoWorklist, return_heights |-> <<>>, caps |-> {}, requeued |-> FALSE]

InitAnalyze ==
    /\ instructions \in WorklistStreams
    /\ an \in {Analyzing(order) : order \in Orders(StreamCallTargets(instructions))}
    /\ constants = <<>>
    /\ loadResult = "NotLoaded"
    /\ loadCaps = {}
    /\ loadTarget = -1
    /\ loadSummaries = <<>>
    /\ ip = 0
    /\ stack = <<>>
    /\ call_stack = <<CallFrame(0, LocalsNew)>>
    /\ halted = FALSE
    /\ state_changes = <<>>
    /\ granted = {}
    /\ mode = "idle"
    /\ lastOp = "none"
    /\ lastResult = "Ok"
    /\ lastDrained = <<>>
    /\ execLog = <<>>
    /\ drainLog = <<>>
    /\ suspended = FALSE
    /\ handoff = NoHandoff
    /\ resumedFrom = "none"
    /\ handlerCalls = <<>>
    /\ bytes = <<>>
    /\ layout = <<>>
    /\ entry_point = 0
    /\ allow_opt_in = FALSE
    /\ lenient = FALSE
    /\ front = NotStarted
    /\ handlerLog = <<>>
    /\ callLog = <<>>

\* what the validator leaves alone
AnalyzeUnchanged ==
    UNCHANGED <<instructions, constants, ip, stack, call_stack, halted, state_changes,
                granted, mode, lastDrained, execLog, drainLog, suspended, handoff,
                resumedFrom, handlerCalls, fileVars, front, handlerLog, callLog>>

\* the validator goes on to pc with its locals l
GoOn(l) ==
    /\ an' = l
    /\ UNCHANGED <<loadResult, loadCaps, loadTarget, loadSummaries, lastOp, lastResult>>

\* the validator returns
Finish(err, target, caps) ==
    /\ an' = [an EXCEPT !.pc = "done"]
    /\ loadResult' = err
    /\ loadTarget' = target
    /\ loadCaps' = caps
    /\ loadSummaries' = an.summaries
    /\ lastOp' = "load"
    /\ lastResult' = err

\* the decode pass and the successor map, up to the first while progress
DecodeAndBuild ==
    /\ an.pc = "decode"
    /\ \E dec \in {DecodeFrom(instructions, 0, <<>>)} :
       \E sc \in {BuildSuccs(dec.metas)} :
          IF dec.err # "Ok" THEN Finish(dec.err, -1, {})
          ELSE IF sc.err # "Ok" THEN Finish(sc.err, sc.target, {})
          ELSE GoOn([an EXCEPT !.pc = "while_progress",
                               !.metas = dec.metas, !.succs = sc.succs,
                               !.pending = CallTargets(dec.metas)])
    /\ AnalyzeUnchanged

\* the condition of while progress; a round starts with the snapshot of
\* pending and goes to the fallback block when pending is not empty
WhileProgress ==
    /\ an.pc = "while_progress"
    /\ IF ~an.progress
       THEN IF AnMetas = <<>> THEN Finish("Ok", -1, {})
            ELSE GoOn([an EXCEPT !.pc = "global", !.st = Worklist(1)])
       ELSE LET snap == Snapshot(an.pending, an.order) IN
            IF an.pending # {}
            THEN GoOn([an EXCEPT !.progress = FALSE, !.outer = snap,
                                 !.progress2 = TRUE, !.pc = "while_progress2"])
            ELSE GoOn([an EXCEPT !.progress = FALSE, !.outer = snap, !.cur = snap,
                                 !.k = 1, !.pc = "primary_for"])
    /\ AnalyzeUnchanged

\* the condition of while progress2; a round of the fallback takes its own
\* snapshot, and the primary sweep follows the last round
WhileProgress2 ==
    /\ an.pc = "while_progress2"
    /\ IF ~an.progress2
       THEN GoOn([an EXCEPT !.cur = an.outer, !.k = 1, !.pc = "primary_for"])
       ELSE GoOn([an EXCEPT !.progress2 = FALSE,
                            !.cur = Snapshot(an.pending, an.order),
                            !.k = 1, !.pc = "fallback_for"])
    /\ AnalyzeUnchanged

\* the head of a for loop over the snapshot cur, in the fallback or the
\* primary sweep: the end of the loop, a target summarized meanwhile, or the
\* start of the local worklist of target cur[k]
ForTarget(for, local, back) ==
    /\ an.pc = for
    /\ IF an.k > Len(an.cur) THEN GoOn([an EXCEPT !.pc = back])
       ELSE IF an.cur[an.k] \in DOMAIN an.summaries
       THEN GoOn([an EXCEPT !.pending = an.pending \ {an.cur[an.k]}, !.k = an.k + 1])
       ELSE GoOn([an EXCEPT !.st = Worklist(OffsetToIdx(AnMetas, an.cur[an.k])),
                            !.return_heights = <<>>, !.pc = local])
    /\ AnalyzeUnchanged

\* a successor met before was pushed again
Requeued(st, st1) ==
    \E k \in (Len(st.q) + 1)..Len(st1.q) : st1.q[k] \in st.seen

\* one iteration of a local worklist, or its end: the summary is recorded
\* when the attempt is not complex and all Returns were met at one height
LocalStep(local, for, placeholders, flagged) ==
    /\ an.pc = local
    /\ IF an.st.q = <<>>
       THEN IF HasSummary([complex |-> FALSE, return_heights |-> an.return_heights])
            THEN GoOn([flagged EXCEPT
                         !.summaries = an.summaries
                                          @@ (an.cur[an.k] :> an.return_heights[1]),
                         !.pending = an.pending \ {an.cur[an.k]},
                         !.k = an.k + 1, !.pc = for])
            ELSE GoOn([an EXCEPT !.k = an.k + 1, !.pc = for])
       ELSE LET j == Head(an.st.q)
                e == LocalEffect(AnMetas[j], an.st.heights[j], an.summaries, placeholders)
                popped == [an.st EXCEPT !.q = Tail(an.st.q)]
                st1 == Propagate(popped, AnSuccs[j], e.nh)
            IN  IF e.complex THEN GoOn([an EXCEPT !.k = an.k + 1, !.pc = for])
                ELSE GoOn([an EXCEPT
                             !.st = st1,
                             !.return_heights =
                                 IF AnMetas[j].opcode = "Return"
                                 THEN Append(an.return_heights, e.nh)
                                 ELSE an.return_heights,
                             !.requeued = an.requeued \/ Requeued(popped, st1)])
    /\ AnalyzeUnchanged

FallbackFor == ForTarget("fallback_for", "fallback_local", "while_progress2")

FallbackLocal ==
    LocalStep("fallback_local", "fallback_for", {an.cur[k] : k \in 1..Len(an.cur)},
              [an EXCEPT !.progress2 = TRUE])

PrimaryFor == ForTarget("primary_for", "primary_local", "while_progress")

PrimaryLocal ==
    LocalStep("primary_local", "primary_for", {}, [an EXCEPT !.progress = TRUE])

\* one iteration of the global worklist, or its end
GlobalStep ==
    /\ an.pc = "global"
    /\ IF an.st.q = <<>> THEN Finish("Ok", -1, an.caps)
       ELSE LET i == Head(an.st.q)
                e == GlobalEffect(instructions, AnMetas[i], an.st.heights[i], an.summaries)
                popped == [an.st EXCEPT !.q = Tail(an.st.q)]
                st1 == Propagate(popped, AnSuccs[i], e.nh)
            IN  IF e.err # "Ok" THEN Finish(e.err, -1, {})
                ELSE GoOn([an EXCEPT !.st = st1, !.caps = an.caps \cup e.caps,
                                     !.requeued = an.requeued \/ Requeued(popped, st1)])
    /\ AnalyzeUnchanged

NextAnalyze ==
    \/ DecodeAndBuild
    \/ WhileProgress
    \/ WhileProgress2
    \/ FallbackFor
    \/ FallbackLocal
    \/ PrimaryFor
    \/ PrimaryLocal
    \/ GlobalStep

SpecAnalyze == InitAnalyze /\ [][NextAnalyze]_vars

\* the validator is sequential code that runs until it returns
SpecAnalyzeFair == SpecAnalyze /\ WF_vars(NextAnalyze)

\* the VM fields have their types in every state
TypeOK ==
    /\ ip \in 0..Len(instructions)
    /\ halted \in BOOLEAN
    /\ mode \in {"idle", "exec"}
    /\ granted \subseteq Caps

(***************************************************************************)
(* Properties.                                                             *)
(***************************************************************************)
\* execute() has returned res
Returned(res) == mode = "idle" /\ lastOp = "execute" /\ lastResult = res

\* step() is about to execute a fully encoded ExternalCall
AtExternalCall ==
    /\ mode = "exec"
    /\ Opcode = "ExternalCall"
    /\ ip + 2 < Len(instructions)

CapIdImm == ByteAt(instructions, ip + 1)
ArgcImm == ByteAt(instructions, ip + 2)

\* this step appends one event of the given kind to the buffer
Appends(kind) ==
    /\ Len(state_changes') = Len(state_changes) + 1
    /\ state_changes'[Len(state_changes')].kind = kind

IsPrefix(a, b) == Len(a) <= Len(b) /\ SubSeq(b, 1, Len(a)) = a

\* C1: for an instruction stream the strict loader accepts, execute() never
\* returns StackUnderflow, whatever the host grants and however it interleaves
\* drain_state_changes, apply_external_results, resume and execute (no pop_top).
C1_NoStackUnderflowAfterStrictLoad ==
    loadResult = "Ok" => ~Returned("StackUnderflow")

\* C2 as stated: an ExternalCallRequest is appended only for a granted cap_id,
\* and an ExternalCall whose cap_id is not granted returns CapabilityDenied and
\* appends no event.
C2_DeniedReturnsCapabilityDenied ==
    [][/\ Appends("ExternalCallRequest") =>
            state_changes'[Len(state_changes')].cap_id \in granted
       /\ (AtExternalCall /\ CapIdImm \notin granted) =>
            (lastResult' = "CapabilityDenied" /\ state_changes' = state_changes)
      ]_vars

\* C2 amended: an ExternalCallRequest is appended only for a granted cap_id, and
\* an ExternalCall whose cap_id is not granted appends no event and returns
\* CapabilityDenied when the stack holds at least argc values, StackUnderflow
\* when it holds fewer (the arguments are popped before the check).
C2_RequestOnlyWhenGranted ==
    [][/\ Appends("ExternalCallRequest") =>
            state_changes'[Len(state_changes')].cap_id \in granted
       /\ (AtExternalCall /\ CapIdImm \notin granted) =>
            /\ state_changes' = state_changes
            /\ lastResult' = IF Len(stack) >= ArgcImm THEN "CapabilityDenied"
                             ELSE "StackUnderflow"
      ]_vars

\* an ExternalCall was denied on a VM that holds no capability
C2_Witness ==
    /\ Returned("CapabilityDenied")
    /\ granted = {}
    /\ state_changes = <<>>

\* C3: once an ExternalCall has suspended the VM, an execute() made before
\* resume() executes no instruction: it returns Ok and leaves ip, operand stack,
\* call stack, halted and the event buffer as they were.
C3_SuspendedExecuteIsNoOp ==
    [][(suspended /\ lastOp' = "execute") =>
          /\ mode' = "idle"
          /\ lastResult' = "Ok"
          /\ UNCHANGED <<ip, stack, call_stack, halted, state_changes>>
      ]_vars

\* execute() was called on a suspended VM after the host drained the request
C3_Witness ==
    /\ suspended
    /\ Returned("Ok")
    /\ state_changes = <<>>
    /\ lastDrained # <<>>

\* C4: when execute() returns an error the VM is left halted and the event
\* buffer holds exactly the events recorded before the fault.
C4_ErrorLeavesHalted ==
    [][(lastOp' = "execute" /\ lastResult' # "Ok") =>
          (halted' /\ state_changes' = state_changes)
      ]_vars

\* C5: the operand stack depth is within [0, max_stack_size] in every state.
C5_StackDepthBounded == Len(stack) \in 0..MaxStackSize

\* a push was refused on a full stack
C5_Witness == Len(stack) = MaxStackSize /\ lastResult = "StackOverflow"

\* C6: the call depth never exceeds max_call_depth.
C6_CallDepthBounded == Len(call_stack) <= MaxCallDepth

\* C7: the call stack always holds the root frame, and a Return executed with
\* only the root frame returns RuntimeFault and leaves the call stack unchanged.
C7_RootFrameNeverPopped ==
    [][/\ Len(call_stack') >= 1
       /\ (Fetching("Return") /\ Len(call_stack) = 1) =>
            (lastResult' = "RuntimeFault" /\ call_stack' = call_stack)
      ]_vars

\* a Return at the root frame has just failed
C7_Witness ==
    /\ Returned("RuntimeFault")
    /\ Len(call_stack) = 1
    /\ ip >= 1
    /\ FromU8(ByteAt(instructions, ip - 1)) = "Return"

\* C8: ip <= instructions.len() in every state, also after a failing
\* instruction; with ip = instructions.len() execute() returns Ok and changes
\* nothing.
C8_IpWithinStream ==
    [][/\ ip' <= Len(instructions')
       /\ (mode = "idle" /\ ip = Len(instructions) /\ lastOp' = "execute") =>
            /\ mode' = "idle"
            /\ lastResult' = "Ok"
            /\ UNCHANGED <<ip, stack, call_stack, halted, state_changes>>
      ]_vars

\* execute() returned Ok at the end of a non-empty stream after a failed read
C8_Witness ==
    /\ Returned("Ok")
    /\ ~halted
    /\ ip = Len(instructions)
    /\ instructions = <<1>>

\* C9: the buffer only grows between drains, and the drained batches followed
\* by the buffer are the events of the executed instructions in program order.
C9_DrainedInProgramOrder ==
    [][/\ drainLog' \o state_changes' = execLog'
       /\ lastOp' # "drain_state_changes" => IsPrefix(state_changes, state_changes')
      ]_vars

\* a LocalStore and an ExternalCallRequest were drained and a later event is buffered
C9_Witness ==
    /\ Len(drainLog) >= 2
    /\ drainLog[1].kind = "LocalStore"
    /\ drainLog[2].kind = "ExternalCallRequest"
    /\ state_changes # <<>>

\* C10: drain_state_changes() returns the whole buffer and leaves it empty, so a
\* drain that directly follows a drain returns the empty sequence; it changes
\* neither ip, operand stack, call stack nor halted.
C10_DrainTakesWholeBuffer ==
    [][lastOp' = "drain_state_changes" =>
          /\ lastDrained' = state_changes
          /\ state_changes' = <<>>
          /\ lastOp = "drain_state_changes" => lastDrained' = <<>>
          /\ UNCHANGED <<ip, stack, call_stack, halted>>
      ]_vars

\* a drain returned a non-empty batch
C10_Witness ==
    /\ lastOp = "drain_state_changes"
    /\ lastDrained # <<>>
    /\ state_changes = <<>>

\* step() is about to execute a StoreLocal whose index byte is present
AtStoreLocal ==
    /\ mode = "exec"
    /\ Opcode = "StoreLocal"
    /\ ip + 1 < Len(instructions)

IndexImm == ByteAt(instructions, ip + 1)

\* C11: a successful StoreLocal idx appends exactly one event,
\* LocalStore{index: idx, value: v}, where v is the value it popped and is what
\* local[idx] of the current frame holds after the store; a StoreLocal that
\* fails appends no event.
C11_StoreLocalRecordsStoredValue ==
    [][/\ (AtStoreLocal /\ lastResult' = "Ok") =>
            /\ state_changes' =
                 Append(state_changes, LocalStore(IndexImm, stack[Len(stack)]))
            /\ call_stack'[Len(call_stack')].locals[IndexImm + 1] = stack[Len(stack)]
            /\ stack' = SubSeq(stack, 1, Len(stack) - 1)
       /\ (mode = "exec" /\ Opcode = "StoreLocal" /\ lastResult' # "Ok") =>
            state_changes' = state_changes
      ]_vars

\* a StoreLocal stored Number 1 into local 0 of a callee's frame
C11_Witness ==
    /\ lastOp = "execute"
    /\ lastResult = "Ok"
    /\ Len(call_stack) = 2
    /\ call_stack[2].locals[1] = Number(1, 1)
    /\ state_changes = <<LocalStore(0, Number(1, 1))>>

\* C12: an ExternalCall cap_id argc with cap_id granted and at least argc values
\* on the stack removes exactly argc values, appends one ExternalCallRequest
\* whose args are those values deepest first, sets halted, pushes nothing and
\* leaves ip just behind its two immediate bytes.
C12_ExternalCallSuspends ==
    [][(AtExternalCall /\ CapIdImm \in granted /\ Len(stack) >= ArgcImm) =>
          /\ lastResult' = "Ok"
          /\ stack' = SubSeq(stack, 1, Len(stack) - ArgcImm)
          /\ state_changes' =
               Append(state_changes,
                      ExternalCallRequest(CapIdImm,
                          SubSeq(stack, Len(stack) - ArgcImm + 1, Len(stack))))
          /\ halted'
          /\ ip' = ip + 3
          /\ mode' = "idle"
      ]_vars

\* an ExternalCall with two arguments has suspended the VM
C12_Witness ==
    /\ suspended
    /\ halted
    /\ stack = <<>>
    /\ state_changes = <<ExternalCallRequest(42, <<Number(1, 1), Ref(7)>>)>>

\* C13 as stated: after a suspension, apply_external_results(r), resume() and
\* execute() continue at the instruction behind the ExternalCall with the
\* pre-resume stack followed by the elements of r.
C13_ResumeContinuesWithResults ==
    [][(mode = "idle" /\ handoff.phase = "resumed" /\ lastOp' = "execute") =>
          /\ ip' = handoff.ip
          /\ stack' = handoff.base \o handoff.results
          /\ mode' = IF handoff.ip < Len(instructions) THEN "exec" ELSE "idle"
      ]_vars

\* C13 amended: after a suspension, apply_external_results(r), resume() and
\* execute() continue at the instruction behind the ExternalCall; the stack is
\* the pre-resume stack followed by the elements of r when
\* apply_external_results returned Ok, and followed by the elements of r that
\* fit under max_stack_size when it returned StackOverflow.
C13_ResumeContinuesWithAppliedResults ==
    [][(mode = "idle" /\ handoff.phase = "resumed" /\ lastOp' = "execute") =>
          /\ ip' = handoff.ip
          /\ mode' = IF handoff.ip < Len(instructions) THEN "exec" ELSE "idle"
          /\ handoff.err = "Ok" <=>
               Len(handoff.base) + Len(handoff.results) <= MaxStackSize
          /\ handoff.err \in {"Ok", "StackOverflow"}
          /\ stack' = handoff.base \o
                        SubSeq(handoff.results, 1,
                               Min(Len(handoff.results),
                                   MaxStackSize - Len(handoff.base)))
      ]_vars

\* execute() has just continued behind an ExternalCall with two results on top
\* of a value the request had left on the stack
C13_Witness ==
    /\ mode = "exec"
    /\ lastOp = "execute"
    /\ resumedFrom = "none"
    /\ handoff = NoHandoff
    /\ ip = 16
    /\ stack = <<Number(1, 1), Number(1, 1), Ref(7)>>

\* C14: after the Halt opcode halted the VM, resume() followed by execute()
\* returns Ok at once without executing an instruction.
C14_HaltThenResumeReturnsAtOnce ==
    [][(mode = "idle" /\ lastOp = "resume" /\ resumedFrom = "Halt"
          /\ lastOp' = "execute") =>
          /\ mode' = "idle"
          /\ lastResult' = "Ok"
      ]_vars

\* the position of the first ExternalCallRequest of a batch, 0 if it has none
FirstRequestIn(batch) ==
    IF \E k \in 1..Len(batch) : batch[k].kind = "ExternalCallRequest"
    THEN CHOOSE k \in 1..Len(batch) :
            /\ batch[k].kind = "ExternalCallRequest"
            /\ \A j \in 1..(k - 1) : batch[j].kind = "LocalStore"
    ELSE 0

\* consume_external_call is called on a buffer that holds a request
ConsumesRequest ==
    /\ lastOp' = "consume_external_call"
    /\ FirstRequestIn(state_changes) # 0

\* C15 as stated: consume_external_call on a buffer holding a request calls the
\* handler exactly once with the first request of the buffer, pushes the
\* results the handler returns in order and clears halted.
C15_ConsumeHandsOverFirstRequest ==
    [][ConsumesRequest =>
          /\ Len(handlerCalls') = 1
          /\ handlerCalls'[1].request = state_changes[FirstRequestIn(state_changes)]
          /\ handlerCalls'[1].returned.err = "Ok" =>
               /\ stack' = stack \o handlerCalls'[1].returned.results
               /\ ~halted'
      ]_vars

\* C15 amended: consume_external_call on a buffer holding a request calls the
\* handler exactly once with the first request of the buffer; when the handler
\* returns Ok(results) and the results fit under max_stack_size they are pushed
\* in order, halted is cleared and Ok is returned; when they do not fit, the
\* ones that fit are pushed, StackOverflow is returned and halted is left as
\* it was.
C15_ConsumeHandsOverFirstRequestIfResultsFit ==
    [][ConsumesRequest =>
          /\ Len(handlerCalls') = 1
          /\ handlerCalls'[1].request = state_changes[FirstRequestIn(state_changes)]
          /\ handlerCalls'[1].returned.err = "Ok" =>
               LET results == handlerCalls'[1].returned.results
                   room == MaxStackSize - Len(stack)
               IN  IF Len(results) <= room
                   THEN /\ stack' = stack \o results
                        /\ ~halted'
                        /\ lastResult' = "Ok"
                   ELSE /\ stack' = stack \o SubSeq(results, 1, room)
                        /\ halted' = halted
                        /\ lastResult' = "StackOverflow"
          /\ handlerCalls'[1].returned.err # "Ok" =>
               /\ lastResult' = handlerCalls'[1].returned.err
               /\ stack' = stack
               /\ halted' = halted
      ]_vars

\* the helper skipped a LocalStore, answered the first of two requests with two
\* results and resumed the VM
C15_Witness ==
    /\ lastOp = "consume_external_call"
    /\ lastResult = "Ok"
    /\ ~halted
    /\ Len(lastDrained) = 4
    /\ lastDrained[1].kind = "LocalStore"
    /\ handlerCalls = <<[request |-> lastDrained[2],
                         returned |-> [err |-> "Ok",
                                       results |-> <<Number(1, 1), Ref(7)>>]]>>
    /\ lastDrained[4] # lastDrained[2]
    /\ lastDrained[4].kind = "ExternalCallRequest"
    /\ stack = <<Number(1, 1), Ref(7)>>

\* C16: consume_external_call on a buffer holding no request returns
\* RuntimeFault without calling the handler and leaves the operand stack and
\* halted as they were.
C16_ConsumeWithoutRequestFaults ==
    [][(lastOp' = "consume_external_call" /\ FirstRequestIn(state_changes) = 0) =>
          /\ lastResult' = "RuntimeFault"
          /\ handlerCalls' = <<>>
          /\ stack' = stack
          /\ halted' = halted
      ]_vars

\* the helper was called on a halted VM whose buffer held only a LocalStore
C16_Witness ==
    /\ lastOp = "consume_external_call"
    /\ lastResult = "RuntimeFault"
    /\ halted
    /\ handlerCalls = <<>>
    /\ an = NotAnalyzing
    /\ front = NotStarted
    /\ handlerLog = <<>>
    /\ callLog = <<>>
    /\ lastDrained = <<LocalStore(0, Number(42, 1))>>

(***************************************************************************)
(* Properties of strict validation.                                        *)
(***************************************************************************)
\* load() has returned
Loaded == loadResult # "NotLoaded"

\* the instruction stream decodes completely
Decodable == DecodeFrom(instructions, 0, <<>>).err = "Ok"

\* the decoded instructions of the stream
Metas == DecodeFrom(instructions, 0, <<>>).metas

\* an instruction starts at offset off
IsInstrStart(off) == \E i \in 1..Len(Metas) : Metas[i].offset = off

\* the Jump, JumpIf and Call instructions whose target is not an instruction start
Mistargeted ==
    {i \in 1..Len(Metas) : /\ Metas[i].opcode \in {"Jump", "JumpIf", "Call"}
                           /\ ~IsInstrStart(Metas[i].target)}

\* the validator's CFG of a stream that decodes and has no mistargeted instruction
Cfg == BuildSuccs(Metas).succs

\* the instructions on the CFG paths that start in S
RECURSIVE CfgClosure(_)
CfgClosure(S) ==
    LET N == S \cup UNION {{Cfg[i][k] : k \in 1..Len(Cfg[i])} : i \in S}
    IN  IF N = S THEN S ELSE CfgClosure(N)

\* the instructions on some CFG path from instruction 0
OnSomePath == IF Metas = <<>> THEN {} ELSE CfgClosure({1})

\* C17: for a stream strict load accepts, caps is the set of the cap_id
\* immediates of the ExternalCall instructions on some path of the validator's
\* CFG from instruction 0.
C17_CapsAreReachableCapIds ==
    (Loaded /\ loadResult = "Ok") =>
        loadCaps = {ByteAt(instructions, Metas[i].offset + 1) :
                      i \in {j \in OnSomePath : Metas[j].opcode = "ExternalCall"}}

\* a stream with two reachable ExternalCalls of different cap_id was accepted
C17_Witness ==
    /\ loadResult = "Ok"
    /\ instructions = <<80, 7, 0, 1, 0, 80, 42, 1>>
    /\ loadCaps = {7, 42}

\* the heights the model follows paths up to
MaxHeight == 4

\* the number of operands an instruction consumes
Operands(m) ==
    CASE m.opcode \in {"Pop", "Dup", "StoreLocal", "Neg"} -> 1
      [] m.opcode \in BinaryOps -> 2
      [] m.opcode = "ExternalCall" -> ByteAt(instructions, m.offset + 2)
      [] OTHER -> 0

\* the pairs <<instruction, height>> on the CFG paths that start in S; a path
\* ends where the validator rejects
RECURSIVE PathStates(_)
PathStates(S) ==
    LET after(p) == GlobalEffect(instructions, Metas[p[1]], p[2], loadSummaries)
        next(p) == IF after(p).err # "Ok" \/ after(p).nh > MaxHeight THEN {}
                   ELSE {<<Cfg[p[1]][k], after(p).nh>> : k \in 1..Len(Cfg[p[1]])}
        N == S \cup UNION {next(p) : p \in S}
    IN  IF N = S THEN S ELSE PathStates(N)

\* on some CFG path from instruction 0 at height 0 an instruction is reached at
\* a height lower than the number of operands it consumes
UnderflowOnSomePath ==
    /\ Metas # <<>>
    /\ \E p \in PathStates({<<1, 0>>}) : p[2] < Operands(Metas[p[1]])

\* C18: strict load returns MalformedBytecode for every stream in which, on
\* some CFG path from instruction 0 at height 0, an instruction is reached at a
\* height lower than the number of operands it consumes.
C18_UnderflowIsMalformed ==
    (Loaded /\ Decodable /\ Mistargeted = {} /\ UnderflowOnSomePath) =>
        loadResult = "MalformedBytecode"

\* C19: for a stream that decodes, if a Jump, JumpIf or Call, reachable or
\* not, has a target that is not the start of an instruction, strict load
\* fails with InvalidJumpTarget carrying the target of the first such
\* instruction.
C19_MistargetedIsInvalidJumpTarget ==
    (Loaded /\ Decodable /\ Mistargeted # {}) =>
        /\ loadResult = "InvalidJumpTarget"
        /\ \E i \in Mistargeted :
              /\ \A j \in Mistargeted : i <= j
              /\ loadTarget = Metas[i].target

\* a JumpIf into the middle of itself was rejected behind a Pop that underflows
C19_Witness ==
    /\ instructions = <<2, 65, 0, 0, 0, 5>>
    /\ loadResult = "InvalidJumpTarget"
    /\ loadTarget = 5

\* summarization has run: the stream decodes and has no mistargeted instruction
Summarized == Loaded /\ Decodable /\ Mistargeted = {}

\* the Calls whose target has no summary
Unsummarized ==
    {i \in 1..Len(Metas) : /\ Metas[i].opcode = "Call"
                           /\ Metas[i].target \notin DOMAIN loadSummaries}

\* C20 as stated: if the stream contains a Call whose target has no summary
\* when summarization finishes, strict load returns MalformedBytecode.
C20_UnsummarizedCallIsMalformed ==
    (Summarized /\ Unsummarized # {}) => loadResult = "MalformedBytecode"

\* C20 amended: if a Call on some CFG path from instruction 0 has a target
\* with no summary when summarization finishes, strict load returns
\* MalformedBytecode; a stream whose only such Calls are on no path from
\* instruction 0 is not rejected for them.
C20_ReachableUnsummarizedCallIsMalformed ==
    /\ (Summarized /\ Unsummarized \cap OnSomePath # {}) =>
          loadResult = "MalformedBytecode"
    /\ (Summarized /\ Unsummarized # {} /\ loadResult = "Ok") =>
          Unsummarized \cap OnSomePath = {}

\* a Call behind a Push, to a callee that never returns, was rejected
C20_Witness ==
    /\ instructions = <<1, 0, 66, 0, 0, 0, 0, 255>>
    /\ loadResult = "MalformedBytecode"
    /\ loadSummaries = <<>>

\* C21: strict load accepts every stream made of two callees that call each
\* other, each pushing then popping before the Call and returning at the
\* height of its entry: both targets get summary 0 and the result is Ok.
C21_MutualRecursionAccepted ==
    \A m \in MutualRecursions :
        (Loaded /\ instructions = m.stream) =>
            /\ loadResult = "Ok"
            /\ {m.a, m.b} \subseteq DOMAIN loadSummaries
            /\ loadSummaries[m.a] = 0
            /\ loadSummaries[m.b] = 0

\* A at 0 and B at 9 were both summarized 0 and the stream was accepted
C21_Witness ==
    /\ instructions = <<1, 0, 2, 66, 0, 0, 0, 9, 67,
                        1, 0, 2, 66, 0, 0, 0, 0, 67, 255>>
    /\ loadResult = "Ok"
    /\ loadSummaries = (0 :> 0) @@ (9 :> 0)

(***************************************************************************)
(* Properties of the loader on files (SpecFile).                           *)
(***************************************************************************)
KnownTags == {0, 1, 2, 255}

\* the offset in the file of the tag byte of constant k
TagOffset(f, k) == 16 + Len(Flatten(SubSeq(f.consts, 1, k - 1)))

\* the constants of the file whose tag is unknown
UnknownTagged(f) == {k \in 1..Len(f.consts) : f.consts[k][1] \notin KnownTags}

\* the buffer holds the tag byte of a constant with an unknown tag
HoldsUnknownTag ==
    \E k \in UnknownTagged(layout.file) : TagOffset(layout.file, k) < layout.cut

\* the buffer ends before the file does
Truncated == layout.cut < Len(Encode(layout.file))

\* the buffer is long enough and has the magic and the major version
HeaderAccepted ==
    /\ layout.cut >= 16
    /\ layout.file.magic = MagicBytes
    /\ layout.file.major = 1

\* C23: strict load answers BytecodeTooShort for a buffer of fewer than 16
\* bytes, else InvalidMagicNumber for a wrong magic, else
\* InvalidBytecodeVersion for a major version other than 1 whatever minor and
\* patch are, else MalformedBytecode at an unknown constant tag and
\* BytecodeTooShort when a constant, the instruction length or the instruction
\* bytes are cut short; a buffer with none of these faults gets the answer of
\* the validation of its instruction bytes.
C23_HeaderFaultsClassified ==
    lastOp = "load" =>
        /\ layout.cut < 16 => loadResult = "BytecodeTooShort"
        /\ (layout.cut >= 16 /\ layout.file.magic # MagicBytes) =>
               loadResult = "InvalidMagicNumber"
        /\ (layout.cut >= 16 /\ layout.file.magic = MagicBytes
                /\ layout.file.major # 1) =>
               loadResult = "InvalidBytecodeVersion"
        /\ (HeaderAccepted /\ HoldsUnknownTag) => loadResult = "MalformedBytecode"
        /\ (HeaderAccepted /\ ~HoldsUnknownTag /\ Truncated) =>
               loadResult = "BytecodeTooShort"
        /\ (HeaderAccepted /\ ~HoldsUnknownTag /\ ~Truncated) =>
               loadResult \in {r.err : r \in LoadOutcomes(layout.file.instr)}

\* a file with a good header, cut inside its Number constant, was too short
C23_Witness ==
    /\ lastOp = "load"
    /\ layout.file.major = 1
    /\ layout.file.magic = MagicBytes
    /\ layout.file.consts = <<<<2, 63, 240, 0, 0, 0, 0, 0, 0>>>>
    /\ layout.cut = 20
    /\ loadResult = "BytecodeTooShort"

\* the lenient parse has nothing to reject: magic and major version are right,
\* every constant has a known tag, nothing is cut short and the instruction
\* bytes decode with every immediate complete
PassesLenientChecks ==
    /\ HeaderAccepted
    /\ UnknownTagged(layout.file) = {}
    /\ ~Truncated
    /\ DecodeFrom(layout.file.instr, 0, <<>>).err = "Ok"

\* the bundle returned is the one r holds
ReturnedBundle(r) ==
    /\ r.err = "Ok"
    /\ constants = r.constants
    /\ instructions = r.instructions
    /\ entry_point = r.entry_point
    /\ loadCaps = r.caps

\* C22: load_with_opt_in(bytes, allow) returns (bundle, false) exactly when
\* load(bytes) succeeds, and then load's bundle; when load fails and allow is
\* false it returns load's error; when load fails, allow is true and the bytes
\* pass the header, constant and immediate-length checks it returns the
\* file's bundle with true.
C22_OptInFollowsStrictLoad ==
    lastOp = "load_with_opt_in" =>
        LET Strict == LoadBytesOutcomes(bytes)
            Succeeds == \A r \in Strict : r.err = "Ok"
        IN  /\ (loadResult = "Ok" /\ ~lenient) <=> Succeeds
            /\ Succeeds => \E r \in Strict : ReturnedBundle(r)
            /\ (~Succeeds /\ ~allow_opt_in) => loadResult \in {r.err : r \in Strict}
            /\ (~Succeeds /\ allow_opt_in /\ PassesLenientChecks) =>
                   /\ loadResult = "Ok"
                   /\ lenient
                   /\ instructions = layout.file.instr
                   /\ entry_point = layout.file.entry
                   /\ Len(constants) = Len(layout.file.consts)

\* a Call with an out-of-range target was refused by load and returned by the
\* lenient parse
C22_Witness ==
    /\ lastOp = "load_with_opt_in"
    /\ allow_opt_in
    /\ \A r \in LoadBytesOutcomes(bytes) : r.err = "InvalidJumpTarget"
    /\ loadResult = "Ok"
    /\ lenient
    /\ instructions = <<66, 0, 255, 255, 255, 255>>

(***************************************************************************)
(* Unknown opcode bytes.                                                   *)
(***************************************************************************)
\* the number of immediate bytes behind an opcode
ImmediateBytes(op) ==
    CASE op \in {"Push", "LoadLocal", "StoreLocal"} -> 1
      [] op = "ExternalCall" -> 2
      [] op \in {"Jump", "JumpIf", "Call"} -> 4
      [] OTHER -> 0

\* going from instruction start to instruction start from offset idx on, a
\* byte that is no opcode is met before the stream ends or breaks off
RECURSIVE MeetsUnknownOpcode(_, _)
MeetsUnknownOpcode(ins, idx) ==
    IF idx >= Len(ins) THEN FALSE
    ELSE LET op == FromU8(ByteAt(ins, idx)) IN
         IF op = "None" THEN TRUE
         ELSE IF idx + 1 + ImmediateBytes(op) > Len(ins) THEN FALSE
         ELSE MeetsUnknownOpcode(ins, idx + 1 + ImmediateBytes(op))

\* C24, in the VM: dispatching a byte that is no opcode returns InvalidOpcode.
C24_DispatchReturnsInvalidOpcode ==
    [][(mode = "exec" /\ LoopCondition(halted, ip)
            /\ FromU8(ByteAt(instructions, ip)) = "None")
          => lastResult' = "InvalidOpcode"]_vars

\* C24, in the strict loader: a stream with a byte at an instruction start
\* that is no opcode is refused with InvalidOpcode.
C24_LoaderReturnsInvalidOpcode ==
    (Loaded /\ MeetsUnknownOpcode(instructions, 0)) => loadResult = "InvalidOpcode"

(***************************************************************************)
(* Pushing on a full operand stack.                                        *)
(***************************************************************************)
\* step() is about to dispatch a Push, Dup or LoadLocal and the operand stack
\* holds max_stack_size values
PushingOnFullStack ==
    /\ mode = "exec"
    /\ Opcode \in {"Push", "Dup", "LoadLocal"}
    /\ Len(stack) = MaxStackSize

\* the instruction has the value it is to push: its immediate byte is in the
\* stream and names a constant of the pool, or a slot of the locals
HasValueToPush ==
    CASE Opcode = "Push" ->
            ip + 1 < Len(instructions) /\ ByteAt(instructions, ip + 1) < Len(constants)
      [] Opcode = "LoadLocal" ->
            ip + 1 < Len(instructions) /\ ByteAt(instructions, ip + 1) < MaxLocals
      [] OTHER -> TRUE

\* C25 as stated: a Push, Dup or LoadLocal executed when the operand stack
\* holds max_stack_size values returns StackOverflow and leaves the operand
\* stack unchanged.
C25_FullStackOverflows ==
    [][PushingOnFullStack => (lastResult' = "StackOverflow" /\ stack' = stack)]_vars

\* C25 amended: such an instruction leaves the operand stack unchanged, and it
\* returns StackOverflow when it has the value to push; a Push or LoadLocal
\* whose immediate is missing or names no constant or local returns that
\* error instead.
C25_FullStackOverflowsWhenValueAvailable ==
    [][PushingOnFullStack =>
          /\ stack' = stack
          /\ HasValueToPush => lastResult' = "StackOverflow"
          /\ ~HasValueToPush =>
                lastResult' \in {"BytecodeTooShort", "InvalidConstantAccess",
                                 "InvalidLocalAccess"}]_vars

\* the Push of Number(42) met a stack filled by the host and overflowed
C25_Witness ==
    /\ instructions = <<1, 0, 17, 0, 255>>
    /\ ip = 2
    /\ lastOp = "execute"
    /\ lastResult = "StackOverflow"
    /\ Len(stack) = MaxStackSize
    /\ Number(42, 1) \notin {stack[k] : k \in 1..Len(stack)}

(***************************************************************************)
(* Call and Return.                                                        *)
(***************************************************************************)
\* step() is about to dispatch a Call whose target is inside the stream
AtCallInRange ==
    /\ Fetching("Call")
    /\ ip + 5 <= Len(instructions)
    /\ U32At(instructions, ip + 1) < Len(instructions)

\* step() is about to dispatch a Return in a called frame
AtReturnInCallee == Fetching("Return") /\ Len(call_stack) > 1

\* the frames under the top one are what they were, and a frame that stays
\* on top returns where it did
FramesBelowKept ==
    /\ \A k \in 1..(Len(call_stack) - 1) :
          k <= Len(call_stack') => call_stack'[k] = call_stack[k]
    /\ Len(call_stack') = Len(call_stack) =>
          call_stack'[Len(call_stack)].return_ip =
              call_stack[Len(call_stack)].return_ip

\* C26: a Call t at offset o with t inside the stream sets ip to t and pushes
\* a frame with all-Null locals that returns to o + 5; no instruction changes
\* a frame under the top one; the Return of a called frame pops exactly that
\* frame and sets ip to its return offset.  So at the matching Return ip is
\* o + 5, the depth is the one before the Call and the caller's locals are
\* the ones before the Call, whatever the callee stored.
C26_CallAndReturnMatch ==
    [][/\ AtCallInRange =>
            /\ ip' = U32At(instructions, ip + 1)
            /\ call_stack' = Append(call_stack,
                                    [return_ip |-> ip + 5,
                                     locals |-> [i \in 1..MaxLocals |-> Null]])
       /\ AtReturnInCallee =>
            /\ ip' = call_stack[Len(call_stack)].return_ip
            /\ call_stack' = SubSeq(call_stack, 1, Len(call_stack) - 1)
            /\ lastResult' = "Ok"
       /\ mode = "exec" => FramesBelowKept]_vars

\* the callee stored Ref(7) in its local 0 and returned behind the Call at
\* offset 4: the caller's local 0 still holds Number(1)
C26_Witness ==
    /\ instructions = <<1, 0, 17, 0, 66, 0, 0, 0, 10, 255, 1, 1, 17, 0, 67>>
    /\ ip = 9
    /\ lastOp = "execute"
    /\ execLog = <<LocalStore(0, Number(1, 1)), LocalStore(0, Ref(7))>>
    /\ Len(call_stack) = 1
    /\ call_stack[1].locals[1] = Number(1, 1)

(***************************************************************************)
(* JumpIf, Nop, Div and Mod.                                               *)
(***************************************************************************)
\* step() is about to dispatch a JumpIf that has its immediate and a value
\* to pop
AtJumpIf ==
    /\ Fetching("JumpIf")
    /\ ip + 5 <= Len(instructions)
    /\ stack # <<>>

\* C27: executing JumpIf t pops one value; if it is Bool(true) ip becomes t,
\* if it is Bool(false) ip becomes the offset behind the immediate, and if it
\* is no Bool the result is TypeMismatch.
C27_JumpIfBranchesOnBool ==
    [][AtJumpIf =>
          LET top == stack[Len(stack)] IN
          /\ stack' = SubSeq(stack, 1, Len(stack) - 1)
          /\ top = Bool(TRUE) =>
                (ip' = U32At(instructions, ip + 1) /\ lastResult' = "Ok")
          /\ top = Bool(FALSE) => (ip' = ip + 5 /\ lastResult' = "Ok")
          /\ top.t # "Bool" => lastResult' = "TypeMismatch"]_vars

\* C28: executing Nop returns Ok and changes nothing but ip, which advances
\* by one byte.
C28_NopOnlyAdvancesIp ==
    [][Fetching("Nop") =>
          /\ lastResult' = "Ok"
          /\ ip' = ip + 1
          /\ UNCHANGED <<stack, call_stack, halted, state_changes>>]_vars

\* step() is about to dispatch op with Number(0) on top of a Number
AtZeroDivisor(op) ==
    /\ Fetching(op)
    /\ Len(stack) >= 2
    /\ stack[Len(stack)] = Number(0, 1)
    /\ stack[Len(stack) - 1].t = "Number"

\* C29: executing Div or Mod with Number(0) on top of the stack returns
\* DivisionByZero, whatever Number is beneath it.
C29_DivOrModByZero ==
    [][(AtZeroDivisor("Div") \/ AtZeroDivisor("Mod")) =>
          lastResult' = "DivisionByZero"]_vars

\* C29 for Div alone
C29_DivByZero ==
    [][AtZeroDivisor("Div") => lastResult' = "DivisionByZero"]_vars

(***************************************************************************)
(* The VM as constructed.                                                  *)
(***************************************************************************)
\* the fields VirtualMachine::new sets, ip apart
FreshApartFromIp ==
    /\ stack = <<>>
    /\ Len(call_stack) = 1
    /\ \A i \in 1..Len(call_stack[1].locals) : call_stack[1].locals[i] = Null
    /\ halted = FALSE
    /\ state_changes = <<>>
    /\ granted = {}

\* C30: a VM constructed for a loaded bundle starts with ip at the bundle's
\* entry point, an empty operand stack, one call frame with all-Null locals,
\* halted false, an empty event buffer and an empty capability registry.
C30_StartsAtEntryPoint ==
    lastOp = "new" => (ip = entry_point /\ FreshApartFromIp)

\* C30 for all fields but ip
C30_StartsFresh ==
    lastOp = "new" => FreshApartFromIp

(***************************************************************************)
(* The order in which the pending call targets are visited.                *)
(***************************************************************************)
\* C36: for a given stream, what strict load answers (accept or reject, the
\* error kind) and the summary recorded for each call target are the same
\* for every order in which the pending call targets are visited.
C36_OutcomeIndependentOfOrder ==
    Loaded =>
        \A r \in LoadOutcomes(instructions) :
            /\ r.err = loadResult
            /\ r.summaries = loadSummaries

(***************************************************************************)
(* JumpIf and ExternalCall in the validator.                               *)
(***************************************************************************)
\* on some CFG path from instruction 0 at height 0 a JumpIf is reached at
\* height 0
JumpIfAtHeightZero ==
    /\ Metas # <<>>
    /\ \E p \in PathStates({<<1, 0>>}) :
          Metas[p[1]].opcode = "JumpIf" /\ p[2] = 0

\* C33: the validator takes one operand from the height at a JumpIf: a stream
\* in which a JumpIf is reached at height 0 is rejected by strict load with
\* MalformedBytecode.
C33_JumpIfAtHeightZeroRejected ==
    (Summarized /\ JumpIfAtHeightZero) => loadResult = "MalformedBytecode"

\* the offsets the Calls of the stream target
CalledOffsets == {Metas[i].target : i \in {j \in 1..Len(Metas) : Metas[j].opcode = "Call"}}

\* the call targets from whose entry an ExternalCall is on some CFG path
ExternalCallees ==
    {t \in CalledOffsets :
        \E i \in CfgClosure({OffsetToIdx(Metas, t)}) : Metas[i].opcode = "ExternalCall"}

\* the Calls on some CFG path from instruction 0 whose target is such a callee
ReachableCallsOfExternalCallees ==
    {i \in OnSomePath : /\ Metas[i].opcode = "Call"
                        /\ Metas[i].target \in ExternalCallees}

\* C34: a call target from whose entry an ExternalCall is reachable in the CFG
\* has no summary when strict load returns, and a stream in which a Call on
\* some CFG path from instruction 0 targets such a callee is rejected with
\* MalformedBytecode.
C34_ExternalCalleeIsNeverSummarized ==
    Summarized =>
        /\ ExternalCallees \cap DOMAIN loadSummaries = {}
        /\ ReachableCallsOfExternalCallees # {} => loadResult = "MalformedBytecode"

\* Call 5, with the callee at 5 making an ExternalCall with no arguments and
\* returning, was rejected and the callee has no summary
C34_Witness ==
    /\ instructions = <<66, 0, 0, 0, 5, 80, 7, 0, 67>>
    /\ ExternalCallees = {5}
    /\ ReachableCallsOfExternalCallees = {1}
    /\ loadResult = "MalformedBytecode"
    /\ loadSummaries = <<>>

(***************************************************************************)
(* The primary fixed point and the mutual-recursion fallback.              *)
(***************************************************************************)
\* the primary loop on its own: sweeps over the pending targets in which a
\* Call to a target without summary makes the attempt complex, repeated until
\* a sweep records no summary
RECURSIVE PrimaryLoop(_, _)
PrimaryLoop(order, z) ==
    LET z1 == SummarizeRound(Metas, Cfg, Snapshot(z.pending, order), 1, {},
                             [z EXCEPT !.progress = FALSE])
    IN  IF z1.progress THEN PrimaryLoop(order, z1) ELSE z1

\* the summaries the primary loop alone records
PrimarySummaries(order) ==
    PrimaryLoop(order, [summaries |-> <<>>, pending |-> CallTargets(Metas),
                        progress |-> TRUE]).summaries

\* C32: a Call to a target without summary counts as a zero-delta placeholder
\* only once the primary fixed point has stopped: a target the primary loop
\* alone summarizes has, when strict load returns, the summary the primary
\* loop gives it.
C32_FallbackOnlyAfterPrimaryFixedPoint ==
    Summarized =>
        \A order \in Orders(CallTargets(Metas)) :
            \A t \in DOMAIN PrimarySummaries(order) :
                /\ t \in DOMAIN loadSummaries
                /\ loadSummaries[t] = PrimarySummaries(order)[t]

(***************************************************************************)
(* What the lenient parse still rejects.                                   *)
(***************************************************************************)
\* going from instruction start to instruction start from offset idx on, every
\* opcode is known and every immediate is complete
RECURSIVE DecodesLinearly(_, _)
DecodesLinearly(ins, idx) ==
    IF idx >= Len(ins) THEN TRUE
    ELSE LET op == FromU8(ByteAt(ins, idx)) IN
         /\ op # "None"
         /\ idx + 1 + ImmediateBytes(op) <= Len(ins)
         /\ DecodesLinearly(ins, idx + 1 + ImmediateBytes(op))

\* the buffer is a whole file with the magic and major version, constants of
\* known tags and an instruction stream that decodes linearly
WellFormedFile ==
    /\ HeaderAccepted
    /\ UnknownTagged(layout.file) = {}
    /\ ~Truncated
    /\ DecodesLinearly(layout.file.instr, 0)

\* C35: load_with_opt_in(bytes, true) returns a bundle only for a buffer with
\* the magic and the major version, constants of known tag and full payload,
\* and an instruction stream that decodes linearly from offset 0 with every
\* opcode known and every immediate complete; for any other buffer it
\* returns an error although lenient mode is allowed.
C35_LenientStillRejectsIllFormed ==
    (lastOp = "load_with_opt_in" /\ allow_opt_in) =>
        /\ loadResult = "Ok" => WellFormedFile
        /\ ~WellFormedFile => (loadResult # "Ok" /\ ~lenient)

\* with lenient mode allowed, a whole file with a good header whose
\* instruction stream is a Push without its immediate was refused
C35_Witness ==
    /\ lastOp = "load_with_opt_in"
    /\ allow_opt_in
    /\ HeaderAccepted
    /\ ~Truncated
    /\ layout.file.instr = <<1>>
    /\ loadResult = "MalformedBytecode"

(***************************************************************************)
(* Summaries against the stack depth at run time.                          *)
(***************************************************************************)
\* step() is about to execute the Return that matches a Call, and execute()
\* has not returned since that Call
AtMatchingReturn ==
    /\ mode = "exec"
    /\ Opcode = "Return"
    /\ callLog # <<>>
    /\ ~callLog[Len(callLog)].interrupted

\* C31: when the validator has recorded a summary d for a call target T, an
\* execution of Call T that reaches its matching Return has there an operand
\* stack depth of the depth at the Call plus d.
C31_SummaryIsRuntimeDelta ==
    (AtMatchingReturn /\ callLog[Len(callLog)].target \in DOMAIN loadSummaries) =>
        Len(stack) = callLog[Len(callLog)].depth
                        + loadSummaries[callLog[Len(callLog)].target]

(***************************************************************************)
(* What runs behind an ExternalCall.                                       *)
(***************************************************************************)
\* execute() has returned CapabilityDenied: ip is just behind the ExternalCall
\* that was refused, and no request was recorded for it
DeniedAtSite ==
    /\ Returned("CapabilityDenied")
    /\ ip >= 3
    /\ FromU8(ByteAt(instructions, ip - 3)) = "ExternalCall"

\* C38: the instruction behind an ExternalCall executes only once the request
\* of that execution of the ExternalCall has been recorded: after execute()
\* has returned CapabilityDenied, whatever the host calls next (execute()
\* included) does not make the VM run the instructions behind the site.
C38_NothingRunsBehindDeniedCall ==
    [][DeniedAtSite => mode' = "idle"]_vars

(***************************************************************************)
(* Requests under the loop execute() / consume_external_call().            *)
(***************************************************************************)
\* the ExternalCallRequest events of a sequence of events, in order
Requests(events) == SelectSeq(events, IsRequest)

\* a batch holds at most one request, and then as its last event
AtMostOneRequestAtEnd(batch) ==
    /\ Len(Requests(batch)) <= 1
    /\ Requests(batch) # <<>> => IsRequest(batch[Len(batch)])

\* C39: under a host that calls execute() and consume_external_call() in
\* turn, every drained batch holds at most one ExternalCallRequest, as its
\* last event; the requests handed to the handler are the requests drained,
\* each once and in the order the VM recorded them, and every request the VM
\* has recorded has been handed over or is still in the buffer.
C39_EachRequestHandledOnce ==
    /\ AtMostOneRequestAtEnd(state_changes)
    /\ lastOp = "consume_external_call" => AtMostOneRequestAtEnd(lastDrained)
    /\ handlerLog = Requests(drainLog)
    /\ Requests(execLog) = handlerLog \o Requests(state_changes)

\* two requests were recorded and handed over, one per consume_external_call
C39_Witness ==
    /\ lastOp = "consume_external_call"
    /\ Len(handlerLog) = 2
    /\ handlerLog = Requests(execLog)
    /\ Len(lastDrained) >= 1
    /\ handlerCalls = <<[request |-> handlerLog[2],
                         returned |-> [err |-> "Ok", results |-> <<>>]]>>

(***************************************************************************)
(* The front end's policy (SpecFront).                                     *)
(***************************************************************************)
\* main is about to call execute() and has built a policy
BeforeExecution == front.pc = "run" /\ front.policy_load_path # "failed"

\* the policy allows c: c is in its allow-list or has an unexpired TTL grant
Allowed(c) ==
    \/ c \in front.policy.allow_list
    \/ \E k \in 1..Len(front.policy.ttl_grants) :
          front.policy.ttl_grants[k].cap = c /\ ~front.policy.ttl_grants[k].expired

\* the decisions the loop over the loader's caps has taken so far
Decided == IF front.grant_bytecode_caps THEN SubSeq(front.caps, 1, front.k - 1) ELSE <<>>

\* one audit entry per decision, in order, saying what was decided
OneEntryPerDecision ==
    /\ Len(front.policy.audit) = Len(Decided)
    /\ \A k \in 1..Len(Decided) :
          front.policy.audit[k] =
              [decision |-> IF Allowed(Decided[k]) THEN "granted" ELSE "denied",
               cap |-> Decided[k]]

\* C40 as stated: before execution the VM's granted set holds no capability
\* the policy denies, and every grant or denial of a loader-discovered
\* capability has appended exactly one audit entry.
C40_GrantedOnlyIfPolicyAllows ==
    BeforeExecution =>
        /\ \A c \in granted : Allowed(c)
        /\ OneEntryPerDecision

\* C40 amended: before execution the VM's granted set holds the capability
\* of --cap (42 by default), which is granted without asking the policy, and
\* besides it only loader-discovered capabilities the policy allows; every
\* grant or denial of a loader-discovered capability has appended exactly
\* one audit entry.
C40_LoaderCapsGrantedOnlyIfPolicyAllows ==
    BeforeExecution =>
        /\ front.cap_to_grant \in granted
        /\ \A c \in granted \ {front.cap_to_grant} :
              Allowed(c) /\ \E k \in 1..Len(Decided) : Decided[k] = c
        /\ \A k \in 1..Len(Decided) : Allowed(Decided[k]) => Decided[k] \in granted
        /\ OneEntryPerDecision

\* the loader found 7 and 9, the policy allows 7 only: 7 was granted and 9
\* denied, with an entry each, next to 42 from the command line
C40_Witness ==
    /\ BeforeExecution
    /\ front.caps = <<7, 9>>
    /\ front.policy.allow_list = {7}
    /\ granted = {7, 42}
    /\ front.policy.audit = <<[decision |-> "granted", cap |-> 7],
                               [decision |-> "denied", cap |-> 9]>>

(***************************************************************************)
(* Termination of the validator (SpecAnalyzeFair).                         *)
(***************************************************************************)
\* the validator run step by step returns what load returns for the same
\* iteration order of pending
StepwiseAgreesWithLoad ==
    an.pc = "done" =>
        LET r == AnalyzeInstructionsCfg(instructions, an.order)
        IN  /\ loadResult = r.err
            /\ loadTarget = r.target
            /\ loadCaps = r.caps
            /\ (r.err = "Ok" => loadSummaries = r.summaries)

\* a step that sets progress or progress2 records a summary and removes its
\* target from pending
ProductiveRoundShrinksPending ==
    ((an'.progress /\ ~an.progress) \/ (an'.progress2 /\ ~an.progress2)
        \/ an'.summaries # an.summaries) =>
            \/ an.pc \in {"while_progress", "while_progress2"}
            \/ /\ an'.pending \subseteq an.pending
               /\ an'.pending # an.pending
               /\ DOMAIN an'.summaries = DOMAIN an.summaries \cup (an.pending \ an'.pending)

\* a worklist step pushes a node met before only when the height recorded for
\* it goes down
RequeueOnlyOnDecrease ==
    (an.pc \in {"fallback_local", "primary_local", "global"} /\ an'.pc = an.pc) =>
        \A k \in Len(an.st.q)..Len(an'.st.q) :
            an'.st.q[k] \in an.st.seen =>
                an'.st.heights[an'.st.q[k]] < an.st.heights[an'.st.q[k]]

\* no height recorded in a worklist is below 0
HeightsNotNegative ==
    \A i \in DOMAIN an.st.heights : an.st.heights[i] >= 0

\* C37: strict load terminates on every input; a round that makes progress
\* removes a target from pending, a worklist pushes a node again only when
\* its recorded height has gone down, and no recorded height is below 0.
C37_StrictLoadTerminates ==
    /\ <>(an.pc = "done")
    /\ [][ProductiveRoundShrinksPending /\ RequeueOnlyOnDecrease]_vars
    /\ []HeightsNotNegative

\* load returned Ok after a productive round (the callee at 14 got summary 0)
\* and a global worklist in which the Halt was pushed again at a lower height
C37_Witness ==
    /\ an.pc = "done"
    /\ instructions = <<66, 0, 0, 0, 14, 1, 0, 65, 0, 0, 0, 13, 2, 255, 1, 0, 2, 67>>
    /\ loadResult = "Ok"
    /\ loadSummaries = (14 :> 0)
    /\ an.requeued

====
